---- MODULE Spec2Model ----
(***************************************************************************)
(* Model of the RTSP training-data collector: the capture script           *)
(* (frame_collector.py) and the interactive frame classifier               *)
(* (frame_classifier.py, with the modular helpers of file_utils.py).       *)
(*                                                                         *)
(* A filename is a sequence of tokens.  A token is a record [t, d]: t is   *)
(* the literal text of the token ("round_", "_", ".jpg", ...) or "num"     *)
(* for a maximal run of decimal digits, whose digits are d.  The regular   *)
(* expressions of the source are evaluated on the tokens.                  *)
(***************************************************************************)
EXTENDS Integers, Sequences, FiniteSets, TLC

VARIABLES
    \* ---- classifier (frame_classifier.py) ----
    classifications,     \* self.classifications: filename -> record
    stats,               \* self.stats: bucket name -> count
    jsonFile,            \* content of classifications.json on disk
    now,                 \* the clock read by datetime.now()
    frame_files,         \* self.frame_files: the inventory
    current_index,       \* self.current_index: the cursor
    current_subcategory, \* self.current_subcategory: the pending selection
    show_help,           \* self.show_help
    show_stats,          \* self.show_stats
    running,             \* position of run(): TRUE inside the while loop
    last,                \* the last operation and what it did (history)
    \* ---- capture script (frame_collector.py) ----
    stateFile,           \* content of test_round_state.txt
    imageDir,            \* rtsp_test_frames: whether it exists, the names in it
    summaryLog,          \* test_summary.log: the blocks appended so far
    proc,                \* the running main(): its position and its locals
    clock,               \* time.time(), in seconds
    runs,                \* number of times main() was started (history)
    assigned,            \* round ids returned by get_next_round_id (history)
    lastWritten,         \* last value save_round_id wrote, 0 if none (history)
    console              \* what the latest main() printed about the source

clsVars == <<classifications, stats, jsonFile, now, frame_files, current_index,
             current_subcategory, show_help, show_stats, running, last>>

colVars == <<stateFile, imageDir, summaryLog, proc, clock, runs, assigned,
             lastWritten, console>>

vars == <<clsVars, colVars>>

-----------------------------------------------------------------------------
(* Bounds *)

\* datetime.now() is read at most MaxClock times in a behaviour
MaxClock == 2

\* main() of the capture script is started at most MaxRuns times
MaxRuns == 2

\* the capture loop runs for MaxDuration seconds (the source sets 1440 minutes;
\* the loop only compares the clock with the end time)
MaxDuration == 3

\* time.time() when the first run starts
StartClock == 5

\* seconds from the start of one run to the start of the next
RunPeriod == 10

-----------------------------------------------------------------------------
(* Python values *)

None == "None"

\* dict.get(key, None)
Get(d, k) == IF k \in DOMAIN d THEN d[k] ELSE None

\* truthiness of a str-or-None value
Truthy(v) == v # None /\ v # ""

EmptyDict == <<>>

\* an assignment that forgets the other keys
MutDictSet(d, k, v) == (k :> v)

\* d[k] = v on a dict
DictSet(d, k, v) == (k :> v) @@ d

-----------------------------------------------------------------------------
(* Filenames *)

Lit(s) == [t |-> s, d |-> <<>>]
Num(ds) == [t |-> "num", d |-> ds]

IsNum(tok) == tok.t = "num"

\* int(<digits>)
RECURSIVE IntOf(_)
IntOf(ds) == IF ds = <<>> THEN 0
             ELSE 10 * IntOf(SubSeq(ds, 1, Len(ds) - 1)) + ds[Len(ds)]

\* str(<non-negative int>) as its decimal digits
RECURSIVE StrOf(_)
StrOf(n) == IF n < 10 THEN <<n>> ELSE Append(StrOf(n \div 10), n % 10)

\* round_<r>_<s>_<ts>.jpg
FrameName(r, s, ts) ==
    <<Lit("round_"), Num(r), Lit("_"), Num(s), Lit("_"), Num(ts), Lit(".jpg")>>

\* str.lower() of a token
Lower(tok) == IF tok.t = ".JPG" THEN Lit(".jpg")
              ELSE IF tok.t = "ROUND_" THEN Lit("round_")
              ELSE tok

\* re.match(r"round_(\d+)_(\d+)_(\d+)\.jpg", name): anchored at the start only
MatchFrame(name) ==
    /\ Len(name) >= 7
    /\ name[1].t = "round_"
    /\ IsNum(name[2])
    /\ name[3].t = "_"
    /\ IsNum(name[4])
    /\ name[5].t = "_"
    /\ IsNum(name[6])
    /\ name[7].t = ".jpg"

-----------------------------------------------------------------------------
(* Configuration: class attributes of FrameClassifier *)

CATEGORIES ==
    ("0" :> "null") @@ ("1" :> "forno_enchendo") @@
    ("2" :> "sinterizacao_acontecendo") @@ ("3" :> "despejo_acontecendo") @@
    ("4" :> "panela_voltando_posicao_normal") @@ ("5" :> "forno_vazio")

SUBCATEGORIES == ("i" :> "inicio") @@ ("m" :> "meio") @@ ("f" :> "fim")

CategoryNames == {CATEGORIES[c] : c \in DOMAIN CATEGORIES}
SubcategoryNames == {SUBCATEGORIES[s] : s \in DOMAIN SUBCATEGORIES}

\* f"{cat}_{subcat}"
StatKey(cat, subcat) == cat \o "_" \o subcat

\* the keys __init__ creates in self.stats
StatKeys ==
    {"null"} \cup {StatKey(c, s) : c \in CategoryNames \ {"null"}, s \in SubcategoryNames}

\* self.stats after __init__'s initialisation loop
InitStats == [k \in StatKeys |-> 0]

frames_dir == "frames_dir"

-----------------------------------------------------------------------------
(* The ledger file *)

\* JSON values: a str is written as a string, a dict as an object
JsonString(v) == [json |-> "string", value |-> v]
JsonObject(members) == [json |-> "object", members |-> members]

\* json.dump of one record: every field is a str, "metadata" a dict of str
DumpRecord(info) ==
    JsonObject([k \in DOMAIN info |->
                   IF k = "metadata"
                   THEN JsonObject([f \in DOMAIN info[k] |-> JsonString(info[k][f])])
                   ELSE JsonString(info[k])])

\* json.dump(classifications, f, indent=4, ensure_ascii=False): the document
JsonDump(mapping) ==
    JsonObject([frame \in DOMAIN mapping |-> DumpRecord(mapping[frame])])

\* objects come back without their members
MutJsonLoad(doc) == IF doc.json = "object" THEN EmptyDict ELSE doc.value

\* json.load: an object becomes a dict, a string a str
RECURSIVE JsonLoad(_)
JsonLoad(doc) ==
    IF doc.json = "object"
    THEN [k \in DOMAIN doc.members |-> JsonLoad(doc.members[k])]
    ELSE doc.value

\* classifications.json: absent, unparsable, or holding the document of a mapping
FileMissing == [kind |-> "missing", data |-> EmptyDict]
FileMalformed == [kind |-> "malformed", data |-> EmptyDict]
FileOf(mapping) == [kind |-> "json", data |-> JsonDump(mapping)]

\* what the three ways a save can go do
SaveOutcomes == {"ok", "open_fails", "write_fails"}

\* FrameClassifier._save_classifications: open(..., 'w') truncates the file, then
\* json.dump writes it; every exception is caught.  The new file content.
SaveClassifications(cls, jf, outcome) ==
    CASE outcome = "ok" -> FileOf(cls)
      [] outcome = "open_fails" -> jf
      [] OTHER -> FileMalformed

\* FrameClassifier._save_classifications has no return statement: the caller
\* gets None however the save went
SaveReturn(outcome) == None

-----------------------------------------------------------------------------
(* FrameClassifier._classify_frame *)

\* the "unknown" of lines 224-226: the empty digit string, which no \d+ matches
Unknown == <<>>

\* metadata with the round id and the frame number exchanged
MutMetadata(frame_filename) ==
    IF MatchFrame(frame_filename)
    THEN [round_id |-> frame_filename[4].d,
          frame_number |-> frame_filename[2].d,
          timestamp |-> frame_filename[6].d]
    ELSE [round_id |-> Unknown, frame_number |-> Unknown, timestamp |-> Unknown]

\* lines 217-232: the metadata parsed from the filename
Metadata(frame_filename) ==
    IF MatchFrame(frame_filename)
    THEN [round_id |-> frame_filename[2].d,
          frame_number |-> frame_filename[4].d,
          timestamp |-> frame_filename[6].d]
    ELSE [round_id |-> Unknown, frame_number |-> Unknown, timestamp |-> Unknown]

\* lines 234-246: the record stored for the frame
ClassificationData(frame_filename, category, subcategory, t) ==
    LET category_name == CATEGORIES[category]
        subcategory_name ==
            IF Truthy(subcategory) THEN Get(SUBCATEGORIES, subcategory) ELSE None
        base == [category_id |-> category,
                 category_name |-> category_name,
                 original_path |-> <<frames_dir, frame_filename>>,
                 metadata |-> Metadata(frame_filename),
                 classified_at |-> t]
    IN  IF Truthy(subcategory) /\ Truthy(subcategory_name)
        THEN base @@ [subcategory_id |-> subcategory,
                      subcategory_name |-> subcategory_name]
        ELSE base

\* a reclassification that forgets the old bucket
MutDecrementOld(st, old_category_name, old_subcategory_name) == st

\* only a "null" record gives its count back
MutDecrementOldNull(st, old_category_name, old_subcategory_name) ==
    IF old_category_name = "null" THEN [st EXCEPT !["null"] = @ - 1] ELSE st

\* lines 211-215: the old bucket is decremented
DecrementOld(st, old_category_name, old_subcategory_name) ==
    IF old_category_name = "null"
    THEN [st EXCEPT !["null"] = @ - 1]
    ELSE IF Truthy(old_subcategory_name)
            /\ StatKey(old_category_name, old_subcategory_name) \in DOMAIN st
         THEN [st EXCEPT ![StatKey(old_category_name, old_subcategory_name)] = @ - 1]
         ELSE st

\* lines 251-257: the new bucket is incremented
IncrementNew(st, category_name, subcategory_name) ==
    IF category_name = "null"
    THEN [st EXCEPT !["null"] = @ + 1]
    ELSE [st EXCEPT ![StatKey(category_name, subcategory_name)] = @ + 1]

\* the subcategory is not checked
MutRejects(category, subcategory) == category \notin DOMAIN CATEGORIES

\* lines 183-190: the argument checks; TRUE when the call is rejected
Rejects(category, subcategory) ==
    \/ category \notin DOMAIN CATEGORIES
    \/ category # "0" /\ subcategory \notin DOMAIN SUBCATEGORIES

\* the stored category name is compared with the category id
MutIsNoOp(cls, frame_filename, category, subcategory) ==
    /\ frame_filename \in DOMAIN cls
    /\ Get(cls[frame_filename], "category_name") = category
    /\ Get(cls[frame_filename], "subcategory_name") =
           (IF Truthy(subcategory) THEN Get(SUBCATEGORIES, subcategory) ELSE None)

\* lines 196-209: an existing record already has this classification
IsNoOp(cls, frame_filename, category, subcategory) ==
    /\ frame_filename \in DOMAIN cls
    /\ Get(cls[frame_filename], "category_name") = CATEGORIES[category]
    /\ Get(cls[frame_filename], "subcategory_name") =
           (IF Truthy(subcategory) THEN Get(SUBCATEGORIES, subcategory) ELSE None)

\* The state a call leaves: its return value, the ledger, the statistics, the
\* ledger file, and whether datetime.now() was read.
ClassifyFrame(cls, st, jf, t, frame_filename, category, subcategory, outcome) ==
    IF Rejects(category, subcategory)
    THEN [ret |-> FALSE, kind |-> "rejected", cls |-> cls, st |-> st, jf |-> jf]
    ELSE IF IsNoOp(cls, frame_filename, category, subcategory)
    THEN [ret |-> FALSE, kind |-> "noop", cls |-> cls, st |-> st, jf |-> jf]
    ELSE
      LET category_name == CATEGORIES[category]
          subcategory_name ==
              IF Truthy(subcategory) THEN Get(SUBCATEGORIES, subcategory) ELSE None
          is_reclassification == frame_filename \in DOMAIN cls
          st1 == IF is_reclassification
                 THEN DecrementOld(st,
                          Get(cls[frame_filename], "category_name"),
                          Get(cls[frame_filename], "subcategory_name"))
                 ELSE st
          cls2 == DictSet(cls, frame_filename,
                      ClassificationData(frame_filename, category, subcategory, t))
          st2 == IncrementNew(st1, category_name, subcategory_name)
      IN  [ret |-> TRUE,
           kind |-> IF is_reclassification THEN "reclassified" ELSE "first",
           cls |-> cls2, st |-> st2,
           jf |-> SaveClassifications(cls2, jf, outcome)]

-----------------------------------------------------------------------------
(* FrameClassifier._load_classifications: the statistics of a mapping *)

\* a load that counts nothing
MutCountRecord(st, info) == st

\* lines 105-113: one record's contribution
CountRecord(st, info) ==
    LET category == Get(info, "category_name")
        subcategory == Get(info, "subcategory_name")
    IN  IF category = "null"
        THEN [st EXCEPT !["null"] = @ + 1]
        ELSE IF Truthy(subcategory) /\ StatKey(category, subcategory) \in DOMAIN st
             THEN [st EXCEPT ![StatKey(category, subcategory)] = @ + 1]
             ELSE st

\* the loop of lines 106-113 over the records of a mapping, from zeroed buckets
RECURSIVE CountAll(_, _, _)
CountAll(st, cls, keys) ==
    IF keys = {} THEN st
    ELSE LET k == CHOOSE x \in keys : TRUE
         IN  CountAll(CountRecord(st, cls[k]), cls, keys \ {k})

RecomputeStats(cls) == CountAll(InitStats, cls, DOMAIN cls)

-----------------------------------------------------------------------------
(* FrameClassifier._load_frame_files *)

\* line 143: file.lower().endswith('.jpg') and file.startswith('round_')
IsJpgRound(name) ==
    /\ Len(name) >= 1
    /\ Lower(name[Len(name)]).t = ".jpg"
    /\ name[1].t = "round_"

\* line 156: the sort key (round_id, frame_num), compared as integers
KeyLE(a, b) ==
    \/ IntOf(a[2].d) < IntOf(b[2].d)
    \/ IntOf(a[2].d) = IntOf(b[2].d) /\ IntOf(a[4].d) <= IntOf(b[4].d)

\* list.sort is stable: x goes after every element whose key is <= its key
RECURSIVE InsertByKey(_, _)
InsertByKey(sorted, x) ==
    IF sorted = <<>> THEN <<x>>
    ELSE IF KeyLE(sorted[Len(sorted)], x) THEN Append(sorted, x)
    ELSE Append(InsertByKey(SubSeq(sorted, 1, Len(sorted) - 1), x), sorted[Len(sorted)])

RECURSIVE SortByKey(_)
SortByKey(seq) ==
    IF seq = <<>> THEN <<>>
    ELSE InsertByKey(SortByKey(SubSeq(seq, 1, Len(seq) - 1)), seq[Len(seq)])

\* lines 141-159 on the names os.listdir yields, in the order it yields them
LoadFrameFiles(listing) ==
    SortByKey(SelectSeq(listing, LAMBDA f : IsJpgRound(f) /\ MatchFrame(f)))

-----------------------------------------------------------------------------
(* The directories and calls the model explores *)

UpperName(r, s, ts) ==
    <<Lit("round_"), Num(r), Lit("_"), Num(s), Lit("_"), Num(ts), Lit(".JPG")>>

NotesTxt == <<Lit("notes"), Lit(".txt")>>

\* directory listings, in the order os.listdir yields the names
Listings ==
    { << FrameName(<<2>>, <<1>>, <<7>>), NotesTxt, FrameName(<<1>>, <<1, 0>>, <<6>>) >>,
      << FrameName(<<1>>, <<1>>, <<5>>), UpperName(<<1>>, <<2>>, <<6>>) >> }

\* arguments of direct calls of _classify_frame
FrameArgs == {FrameName(<<1>>, <<1>>, <<5>>), NotesTxt}
CategoryArgs == {"0", "1", "2", "9"}
SubcategoryArgs == {None, "i", "f", "x"}

-----------------------------------------------------------------------------
(* History: what the last operation was and did; prev_index and prev_overlay
   are the cursor and the overlay it started from, save is how its call of
   _save_classifications went ("none": no call) and save_ret what that returned *)

NoName == <<>>

\* the overlay drawn over the frame
Overlay == IF show_help THEN "help" ELSE IF show_stats THEN "stats" ELSE "none"

NoLast ==
    [op |-> "init", called |-> FALSE, frame |-> NoName, category |-> None,
     subcategory |-> None, kind |-> "none", repeat |-> FALSE, invalid |-> FALSE,
     prev_index |-> 0, prev_overlay |-> "none", save |-> "none",
     save_ret |-> None, key |-> 0]

\* an operation that did not call _classify_frame
LastPlain(op) ==
    [op |-> op, called |-> FALSE, frame |-> NoName, category |-> None,
     subcategory |-> None, kind |-> "none", repeat |-> FALSE, invalid |-> FALSE,
     prev_index |-> current_index, prev_overlay |-> Overlay, save |-> "none",
     save_ret |-> None, key |-> 0]

\* an operation that called _classify_frame (the arguments of a rejected call
\* are not kept); repeat: the call before it, with no operation in between,
\* had the same arguments and was not rejected; invalid: the category is
\* outside 0..5, or it is not 0 and the subcategory is not one of i, m, f
LastCall(op, frame, category, subcategory, kind) ==
    [op |-> op, called |-> TRUE,
     frame |-> IF kind = "rejected" THEN NoName ELSE frame,
     category |-> IF kind = "rejected" THEN None ELSE category,
     subcategory |-> IF kind = "rejected" THEN None ELSE subcategory,
     kind |-> kind,
     repeat |-> /\ last.called
                /\ last.kind # "rejected"
                /\ last.frame = frame
                /\ last.category = category
                /\ last.subcategory = subcategory,
     invalid |-> \/ category \notin {"0", "1", "2", "3", "4", "5"}
                 \/ category # "0" /\ subcategory \notin {"i", "m", "f"},
     prev_index |-> current_index, prev_overlay |-> Overlay, save |-> "none",
     save_ret |-> None, key |-> 0]

\* the operation called self._save_classifications(), which went as outcome says
WithSave(l, outcome) ==
    [l EXCEPT !.save = outcome, !.save_ret = SaveReturn(outcome)]

\* the raw code cv2.waitKeyEx returned for the operation (0: no key)
Keyed(l, key) == [l EXCEPT !.key = key]

-----------------------------------------------------------------------------
(* FrameClassifier.__init__ with no ledger file on disk *)

Construct(listing) ==
    /\ classifications = EmptyDict
    /\ stats = InitStats
    /\ jsonFile = FileMissing
    /\ now = 0
    /\ frame_files = LoadFrameFiles(listing)
    /\ frame_files # <<>>           \* lines 91-93: sys.exit(1) otherwise
    /\ current_index = 0
    /\ current_subcategory = None
    /\ show_help = FALSE
    /\ show_stats = FALSE
    /\ running = TRUE
    /\ last = NoLast

InitClassifier == \E listing \in Listings : Construct(listing)

-----------------------------------------------------------------------------
(* A direct call of FrameClassifier._classify_frame *)

CallClassify(frame, category, subcategory, outcome) ==
    LET r == ClassifyFrame(classifications, stats, jsonFile, now,
                           frame, category, subcategory, outcome)
    IN  /\ r.ret => now < MaxClock
        /\ r.ret \/ outcome = "ok"      \* only an applied call saves
        /\ classifications' = r.cls
        /\ stats' = r.st
        /\ jsonFile' = r.jf
        /\ now' = IF r.ret THEN now + 1 ELSE now
        /\ last' = IF r.ret
                   THEN WithSave(LastCall("call", frame, category, subcategory,
                                          r.kind), outcome)
                   ELSE LastCall("call", frame, category, subcategory, r.kind)
        /\ UNCHANGED <<frame_files, current_index, current_subcategory,
                       show_help, show_stats, running>>
        /\ UNCHANGED colVars

-----------------------------------------------------------------------------
(* FrameClassifier.run: one iteration of the while loop per key *)

\* raw codes cv2.waitKeyEx can return: letters in either case (Q, h, S, i, F),
\* category digits, the jump of 10, the arrow codes the source lists, an
\* unbound letter
KeyInputs ==
    {81, 104, 83, 105, 70,
     48, 49, 50, 55,
     2555904, 65363, 2424832, 65361, 120}

\* the same with the jumps of 100 and 1000
BrowseKeys == KeyInputs \cup {56, 57}

\* line 725: key & 0xFF
KeyLower(key) == key % 256

\* chr() of a code, for the codes that are digits
Chr(code) ==
    CASE code = 48 -> "0" [] code = 49 -> "1" [] code = 50 -> "2"
      [] code = 51 -> "3" [] code = 52 -> "4" [] code = 53 -> "5"
      [] code = 54 -> "6" [] code = 55 -> "7" [] code = 56 -> "8"
      [] code = 57 -> "9" [] OTHER -> "?"

\* lines 728-802: the branch of the if/elif chain a key takes
Branch(key) ==
    LET key_lower == KeyLower(key)
    IN  IF key_lower \in {113, 81} THEN "quit"
        ELSE IF key_lower \in {104, 72} THEN "help"
        ELSE IF key_lower \in {115, 83} THEN "stats"
        ELSE IF key_lower \in {105, 73} THEN "i"
        ELSE IF key_lower \in {109, 77} THEN "m"
        ELSE IF key_lower \in {102, 70} THEN "f"
        ELSE IF Chr(key_lower) \in DOMAIN CATEGORIES THEN "category"
        ELSE IF key \in {2555904, 65363, 83} THEN "next"
        ELSE IF key \in {2424832, 65361, 81} THEN "prev"
        ELSE IF key_lower = 55 THEN "jump10"
        ELSE IF key_lower = 56 THEN "jump100"
        ELSE IF key_lower = 57 THEN "jump1000"
        ELSE "other"

\* a loop condition that is false on the last frame
MutInRange(index) == 0 <= index /\ index < Len(frame_files) - 1

\* line 692: the loop condition
InRange(index) == 0 <= index /\ index < Len(frame_files)

\* no clamp at the end of the list
MutClampEnd(index) == index

\* lines 804-806: the clamp at the end of an iteration
ClampEnd(index) ==
    IF index >= Len(frame_files) THEN Len(frame_files) - 1 ELSE index

\* The end of an iteration that did not break: the clamp, then the loop
\* condition; when it is false the loop ends and lines 808-810 save the ledger.
EndIteration(index, cls, jf) ==
    /\ current_index' = ClampEnd(index)
    /\ running' = InRange(ClampEnd(index))
    /\ IF InRange(ClampEnd(index))
       THEN jsonFile' = jf
       ELSE \E outcome \in SaveOutcomes :
               jsonFile' = SaveClassifications(cls, jf, outcome)

\* the loop goes on after the break
MutLooping == InRange(current_index)

\* the loop is at line 724, waiting for a key
Looping == running /\ InRange(current_index)

\* lines 728-730 and 808-810: q breaks out of the loop, the ledger is saved
KeyQuit(key, outcome) ==
    /\ Looping
    /\ Branch(key) = "quit"
    /\ running' = FALSE
    /\ jsonFile' = SaveClassifications(classifications, jsonFile, outcome)
    /\ last' = Keyed(WithSave(LastPlain("quit"), outcome), key)
    /\ UNCHANGED <<classifications, stats, now, frame_files, current_index,
                   current_subcategory, show_help, show_stats>>
    /\ UNCHANGED colVars

\* the other overlay is left as it is
MutCloseOther(shown, other) == other

\* lines 735-736 and 741-742: an overlay that was just opened closes the other
CloseOther(shown, other) == IF shown THEN FALSE ELSE other

\* lines 733-736
KeyHelp(key) ==
    /\ Looping
    /\ Branch(key) = "help"
    /\ show_help' = ~show_help
    /\ show_stats' = CloseOther(~show_help, show_stats)
    /\ EndIteration(current_index, classifications, jsonFile)
    /\ last' = Keyed(LastPlain("help"), key)
    /\ UNCHANGED <<classifications, stats, now, frame_files, current_subcategory>>
    /\ UNCHANGED colVars

\* lines 739-742
KeyStats(key) ==
    /\ Looping
    /\ Branch(key) = "stats"
    /\ show_stats' = ~show_stats
    /\ show_help' = CloseOther(~show_stats, show_help)
    /\ EndIteration(current_index, classifications, jsonFile)
    /\ last' = Keyed(LastPlain("stats"), key)
    /\ UNCHANGED <<classifications, stats, now, frame_files, current_subcategory>>
    /\ UNCHANGED colVars

\* the letter of a subcategory key, in either case
Selected(key) ==
    CASE KeyLower(key) \in {105, 73} -> "i"
      [] KeyLower(key) \in {109, 77} -> "m"
      [] KeyLower(key) \in {102, 70} -> "f"
      [] OTHER -> None

\* the selection is dropped
MutSelect(branch) == None

\* lines 746, 750, 754: the assignment of the branch taken
Select(branch) == branch

\* lines 745-755
KeySubcategory(key) ==
    /\ Looping
    /\ Branch(key) \in {"i", "m", "f"}
    /\ current_subcategory' = Select(Branch(key))
    /\ EndIteration(current_index, classifications, jsonFile)
    /\ last' = Keyed([LastPlain("subcategory") EXCEPT
                            !.subcategory = Selected(key)], key)
    /\ UNCHANGED <<classifications, stats, now, frame_files, show_help, show_stats>>
    /\ UNCHANGED colVars

\* the pending subcategory is passed for every category
MutSubcategoryArg(category, pending) == pending

\* lines 765-773: the subcategory argument of the call
SubcategoryArg(category, pending) == IF category = "0" THEN None ELSE pending

\* every call that returns True advances
MutAdvance(index, ret, was_classified) == IF ret THEN index + 1 ELSE index

\* lines 766-768 and 772-774: the cursor after the call
Advance(index, ret, was_classified) ==
    IF ret /\ ~was_classified THEN index + 1 ELSE index

\* the overlays do not matter
MutOverlayClear(help, statistics) == TRUE

\* line 760: not self.show_help and not self.show_stats
OverlayClear(help, statistics) == ~help /\ ~statistics

\* a category other than 0 is passed on with no subcategory armed
MutSubcategoryReady(category, pending) == TRUE

\* lines 765 and 771: category 0, or a subcategory is armed
SubcategoryReady(category, pending) == category = "0" \/ Truthy(pending)

\* lines 758-777: a category key
KeyCategory(key, outcome) ==
    /\ Looping
    /\ Branch(key) = "category"
    /\ LET current_frame == frame_files[current_index + 1]
           category == Chr(KeyLower(key))
           was_classified == current_frame \in DOMAIN classifications
           subcategory == SubcategoryArg(category, current_subcategory)
           calls == /\ OverlayClear(show_help, show_stats)
                    /\ SubcategoryReady(category, current_subcategory)
           r == ClassifyFrame(classifications, stats, jsonFile, now,
                              current_frame, category, subcategory, outcome)
       IN  IF calls
           THEN /\ r.ret => now < MaxClock
                /\ r.ret \/ outcome = "ok"      \* only an applied call saves
                /\ classifications' = r.cls
                /\ stats' = r.st
                /\ now' = IF r.ret THEN now + 1 ELSE now
                /\ EndIteration(Advance(current_index, r.ret, was_classified),
                                r.cls, r.jf)
                /\ last' = Keyed(IF r.ret
                                 THEN WithSave(LastCall("category", current_frame,
                                                   category, subcategory, r.kind),
                                               outcome)
                                 ELSE LastCall("category", current_frame, category,
                                               subcategory, r.kind), key)
           ELSE /\ outcome = "ok"
                /\ UNCHANGED <<classifications, stats, now>>
                /\ EndIteration(current_index, classifications, jsonFile)
                /\ last' = Keyed([LastPlain("category") EXCEPT
                                        !.category = category], key)
    /\ UNCHANGED <<frame_files, current_subcategory, show_help, show_stats>>
    /\ UNCHANGED colVars

\* lines 780-782
KeyNext(key) ==
    /\ Looping
    /\ Branch(key) = "next"
    /\ EndIteration(current_index + 1, classifications, jsonFile)
    /\ last' = Keyed(LastPlain("next"), key)
    /\ UNCHANGED <<classifications, stats, now, frame_files, current_subcategory,
                   show_help, show_stats>>
    /\ UNCHANGED colVars

\* lines 783-787
KeyPrev(key) ==
    /\ Looping
    /\ Branch(key) = "prev"
    /\ EndIteration(IF current_index - 1 < 0 THEN 0 ELSE current_index - 1,
                    classifications, jsonFile)
    /\ last' = Keyed(LastPlain("prev"), key)
    /\ UNCHANGED <<classifications, stats, now, frame_files, current_subcategory,
                   show_help, show_stats>>
    /\ UNCHANGED colVars

\* a jump that always lands on the last frame
MutMin(a, b) == b

\* min(a, b)
Min(a, b) == IF a <= b THEN a ELSE b

\* lines 788-799
KeyJump(key) ==
    /\ Looping
    /\ Branch(key) \in {"jump10", "jump100", "jump1000"}
    /\ LET n == CASE Branch(key) = "jump10" -> 10
                  [] Branch(key) = "jump100" -> 100
                  [] OTHER -> 1000
       IN  EndIteration(Min(current_index + n, Len(frame_files) - 1),
                        classifications, jsonFile)
    /\ last' = Keyed(LastPlain("jump"), key)
    /\ UNCHANGED <<classifications, stats, now, frame_files, current_subcategory,
                   show_help, show_stats>>
    /\ UNCHANGED colVars

\* lines 800-802
KeyOther(key) ==
    /\ Looping
    /\ Branch(key) = "other"
    /\ EndIteration(current_index, classifications, jsonFile)
    /\ last' = Keyed(LastPlain("other"), key)
    /\ UNCHANGED <<classifications, stats, now, frame_files, current_subcategory,
                   show_help, show_stats>>
    /\ UNCHANGED colVars

-----------------------------------------------------------------------------
(* frame_collector.py: the round state file *)

\* test_round_state.txt: absent, unreadable (any other I/O error), or a text
StateMissing == [kind |-> "missing", text |-> <<>>]
StateUnreadable == [kind |-> "unreadable", text |-> <<>>]
StateText(text) == [kind |-> "text", text |-> text]

IsSpace(tok) == tok.t \in {" ", "\n"}

\* str.strip()
RECURSIVE Strip(_)
Strip(text) ==
    IF text = <<>> THEN <<>>
    ELSE IF IsSpace(text[1]) THEN Strip(Tail(text))
    ELSE IF IsSpace(text[Len(text)]) THEN Strip(SubSeq(text, 1, Len(text) - 1))
    ELSE text

\* int(text.strip()): an optional sign and decimal digits; ok = FALSE is ValueError
ParseInt(text) ==
    LET t == Strip(text)
    IN  IF Len(t) = 1 /\ IsNum(t[1])
        THEN [ok |-> TRUE, val |-> IntOf(t[1].d)]
        ELSE IF Len(t) = 2 /\ t[1].t = "-" /\ IsNum(t[2])
        THEN [ok |-> TRUE, val |-> 0 - IntOf(t[2].d)]
        ELSE IF Len(t) = 2 /\ t[1].t = "+" /\ IsNum(t[2])
        THEN [ok |-> TRUE, val |-> IntOf(t[2].d)]
        ELSE [ok |-> FALSE, val |-> 0]

\* lines 36-49: last_round_from_state
ReadStateFile(sf) ==
    IF sf.kind = "text" /\ ParseInt(sf.text).ok THEN ParseInt(sf.text).val ELSE 0

\* line 55: re.compile(r"^round_(\d+)_.*\.jpg$").match(fname)
MatchRound(fname) ==
    /\ Len(fname) >= 4
    /\ fname[1].t = "round_"
    /\ IsNum(fname[2])
    /\ fname[3].t = "_"
    /\ fname[Len(fname)].t = ".jpg"

\* lines 56-62: the loop over os.listdir keeping the largest round number
RECURSIVE MaxRoundFound(_, _)
MaxRoundFound(names, max_round_found) ==
    IF names = {} THEN max_round_found
    ELSE LET fname == CHOOSE x \in names : TRUE
             round_num == IF MatchRound(fname) THEN IntOf(fname[2].d) ELSE 0
         IN  MaxRoundFound(names \ {fname},
                 IF MatchRound(fname) /\ round_num > max_round_found
                 THEN round_num ELSE max_round_found)

\* lines 51-73: max_round_from_files; listable = FALSE when os.listdir raises
ScanImageDir(dir, listable) ==
    IF dir.exists /\ listable THEN MaxRoundFound(dir.files, 0) ELSE 0

Max(a, b) == IF a >= b THEN a ELSE b

\* the directory is scanned only when the state file gave nothing
MutGetNextRoundId(sf, dir, listable) ==
    IF ReadStateFile(sf) > 0 THEN ReadStateFile(sf) + 1
    ELSE ScanImageDir(dir, listable) + 1

\* get_next_round_id, lines 30-79
GetNextRoundId(sf, dir, listable) ==
    Max(ReadStateFile(sf), ScanImageDir(dir, listable)) + 1

\* how a write of a small file can go
WriteOutcomes == {"ok", "open_fails", "write_fails"}

\* save_round_id that writes the id of the round to come
MutSaveNextRoundId(round_id, sf, outcome) ==
    CASE outcome = "ok" -> StateText(<<Num(StrOf(round_id + 1))>>)
      [] outcome = "open_fails" -> sf
      [] OTHER -> StateText(<<>>)

\* save_round_id that writes nothing
MutSaveRoundId(round_id, sf, outcome) == sf

\* save_round_id, lines 82-88: open(..., 'w') truncates, write may fail after it
SaveRoundId(round_id, sf, outcome) ==
    CASE outcome = "ok" -> StateText(<<Num(StrOf(round_id))>>)
      [] outcome = "open_fails" -> sf
      [] OTHER -> StateText(<<>>)

-----------------------------------------------------------------------------
(* frame_collector.py: main *)

interval_seconds == 2

\* the five settings read from the environment; "" is a missing one
Settings ==
    { [username |-> "admin", password |-> "pw1", ip |-> "10.0.0.9",
       port |-> "554", stream_path |-> "/live"],
      [username |-> "admin", password |-> "pw2", ip |-> "10.0.0.9",
       port |-> "554", stream_path |-> "/live"],
      [username |-> "admin", password |-> "", ip |-> "10.0.0.9",
       port |-> "554", stream_path |-> "/live"],
      [username |-> "admin", password |-> "pw1", ip |-> "",
       port |-> "554", stream_path |-> "/live"] }

\* the settings the runs of SpecCollector are started with
RoundSettings == {e \in Settings : e.password # "pw2" /\ e.ip # ""}

\* how cv2.imwrite can go: the file is written, it returns False without
\* writing, it raises
ImwriteOutcomes == {"written", "false", "raises"}

\* seconds a cap.read() takes: less than the interval, so that a read that
\* follows a save is held back by the gate
ReadTimes == {1}

\* the settings the runs of SpecCapture are started with
CaptureSettings == {e \in Settings : e.password # "pw2"}

\* how the append of write_metadata can go (lines 94-115: any failure is caught)
AppendOutcomes == {"ok", "open_fails"}

\* a check that looks at the credentials only
MutAllSet(env) == env.username # "" /\ env.password # ""

\* line 130: all([username, password, ip, port, stream_path])
AllSet(env) ==
    /\ env.username # "" /\ env.password # "" /\ env.ip # ""
    /\ env.port # "" /\ env.stream_path # ""

\* A text built by an f-string is the sequence of its pieces: the literal parts
\* and the values formatted into it.

\* line 136: rtsp_url
RtspUrl(env) ==
    <<"rtsp://", env.username, ":", env.password, "@", env.ip, ":", env.port,
      env.stream_path>>

\* lines 137 and 246: the URL with the password masked
MaskedUrl(env) ==
    <<"rtsp://", env.username, ":", "******", "@", env.ip, ":", env.port,
      env.stream_path>>

\* lines 131-132: the two lines printed when a setting is missing
MissingSettings ==
    <<<<"Error: Camera credentials or stream path not found in .env file.">>,
      <<"Please ensure CAMERA_USERNAME, CAMERA_PASSWORD, CAMERA_IP, CAMERA_PORT, and RTSP_STREAM_PATH are set.">>>>

\* line 137
Connecting(env) == <<"Connecting to RTSP stream: ">> \o MaskedUrl(env)

\* line 167
CouldNotOpen(env) == <<"Error: Could not open RTSP stream at ">> \o RtspUrl(env)

\* main() is not running.  step, nonempty, log and state are history: how the
\* latest main() went through its last step, whether it has read a non-empty
\* frame, and how write_metadata and save_round_id went if it reached them.
Idle ==
    [pc |-> "idle", env |-> CHOOSE e \in Settings : TRUE, current_round_id |-> 0,
     frames_saved_count |-> 0, round_filenames |-> <<>>, last_save_time |-> 0,
     end_run_time |-> 0, step |-> "none", nonempty |-> FALSE, log |-> "none",
     state |-> "none"]

\* a gate that lets every frame through
MutDue(current_time, last_save_time) == TRUE

\* line 188: the interval has passed since the last save
Due(current_time, last_save_time) ==
    current_time - last_save_time >= interval_seconds

\* main() has returned
Returned(env, step, logOutcome, stateOutcome) ==
    [Idle EXCEPT !.env = env, !.step = step, !.log = logOutcome,
                 !.state = stateOutcome]

\* lines 119-176: main() up to the capture loop
StartRun(env, listable, dirOk, opened) ==
    /\ proc.pc = "idle"
    /\ runs < MaxRuns
    /\ runs' = runs + 1
    /\ clock' = StartClock + runs * RunPeriod      \* when the operator starts it
    /\ console' = IF ~AllSet(env) THEN MissingSettings
                  ELSE IF (dirOk \/ imageDir.exists) /\ ~opened
                       THEN <<Connecting(env), CouldNotOpen(env)>>
                       ELSE <<Connecting(env)>>
    /\ IF ~AllSet(env)
       THEN \* line 133: return before anything is resolved
            /\ proc' = Returned(env, "no_settings", "none", "none")
            /\ UNCHANGED <<imageDir, assigned>>
       ELSE LET current_round_id == GetNextRoundId(stateFile, imageDir, listable)
            IN  /\ assigned' = Append(assigned, current_round_id)
                /\ IF ~dirOk /\ ~imageDir.exists
                   THEN \* lines 159-161: os.makedirs raised
                        /\ proc' = Returned(env, "no_directory", "none", "none")
                        /\ UNCHANGED imageDir
                   ELSE /\ imageDir' = [imageDir EXCEPT !.exists = TRUE]
                        /\ IF ~opened
                           THEN \* lines 166-168: the stream did not open
                                proc' = Returned(env, "no_stream", "none", "none")
                           ELSE proc' = [pc |-> "capturing", env |-> env,
                                         current_round_id |-> current_round_id,
                                         frames_saved_count |-> 0,
                                         round_filenames |-> <<>>,
                                         last_save_time |-> 0,
                                         end_run_time |-> clock' + MaxDuration,
                                         step |-> "start", nonempty |-> FALSE,
                                         log |-> "none", state |-> "none"]
    /\ UNCHANGED <<stateFile, summaryLog, lastWritten>>
    /\ UNCHANGED clsVars

\* lines 214-264: after the loop, the metadata block and the round counter
Shutdown(step, logOutcome, stateOutcome) ==
    /\ summaryLog' =
          IF logOutcome = "ok"
          THEN Append(summaryLog,
                   [round_id |-> proc.current_round_id,
                    url |-> MaskedUrl(proc.env),
                    frames_saved |-> proc.frames_saved_count])
          ELSE summaryLog
    /\ stateFile' = SaveRoundId(proc.current_round_id, stateFile, stateOutcome)
    /\ lastWritten' = IF stateOutcome = "ok" THEN proc.current_round_id
                      ELSE lastWritten
    /\ proc' = Returned(proc.env, step, logOutcome, stateOutcome)

\* lines 178-212: one iteration of the capture loop.  ret and frameOk are what
\* cap.read() returned, written is how cv2.imwrite went ("written", "false" when
\* it returned False, "raises"), dt the seconds the read took.
CaptureStep(ret, frameOk, written, dt, logOutcome, stateOutcome) ==
    /\ proc.pc = "capturing"
    /\ clock < proc.end_run_time
    /\ IF ~ret
       THEN \* lines 181-183: break, then the shutdown phase
            /\ Shutdown("read_failed", logOutcome, stateOutcome)
            /\ UNCHANGED <<imageDir, clock>>
       ELSE LET current_time == clock + dt
                frame_id_in_round == proc.frames_saved_count + 1
                frame_filename ==
                    FrameName(StrOf(proc.current_round_id),
                              StrOf(frame_id_in_round), StrOf(current_time * 1000))
                due == Due(current_time, proc.last_save_time)
                counted == due /\ frameOk /\ written # "raises"
            IN  /\ clock' = current_time
                /\ imageDir' =
                      IF due /\ frameOk /\ written = "written"
                      THEN [imageDir EXCEPT !.files = @ \cup {frame_filename}]
                      ELSE imageDir
                /\ proc' =
                      IF counted
                      THEN [proc EXCEPT
                              !.frames_saved_count = @ + 1,
                              !.round_filenames = Append(@, frame_filename),
                              !.last_save_time = current_time,
                              !.nonempty = TRUE,
                              !.step = IF written = "written" THEN "saved"
                                       ELSE "unwritten"]
                      ELSE [proc EXCEPT
                              !.nonempty = @ \/ frameOk,
                              !.step = IF ~due THEN "gated"
                                       ELSE IF ~frameOk THEN "empty"
                                       ELSE "write_raised"]
                /\ UNCHANGED <<stateFile, summaryLog, lastWritten>>
    /\ UNCHANGED <<runs, assigned, console>>
    /\ UNCHANGED clsVars

\* line 178 false: the duration has elapsed
EndOfDuration(logOutcome, stateOutcome) ==
    /\ proc.pc = "capturing"
    /\ clock >= proc.end_run_time
    /\ Shutdown("duration", logOutcome, stateOutcome)
    /\ UNCHANGED <<imageDir, clock, runs, assigned, console>>
    /\ UNCHANGED clsVars

\* the process is killed inside the capture loop: nothing of lines 214-264 runs
Kill ==
    /\ proc.pc = "capturing"
    /\ proc' = Returned(proc.env, "killed", "none", "none")
    /\ UNCHANGED <<stateFile, imageDir, summaryLog, clock, runs, assigned,
                   lastWritten, console>>
    /\ UNCHANGED clsVars

\* between runs the state file is lost, damaged or replaced by an older copy
StateContents ==
    {StateMissing, StateText(<<Lit("x")>>), StateText(<<Num(<<1>>), Lit("\n")>>)}

TamperStateFile(content) ==
    /\ proc.pc = "idle"
    /\ runs < MaxRuns
    /\ stateFile # content
    /\ stateFile' = content
    /\ UNCHANGED <<imageDir, summaryLog, proc, clock, runs, assigned, lastWritten,
                   console>>
    /\ UNCHANGED clsVars

\* get_next_round_id called once on a state file and a directory
Resolve(listable) ==
    /\ assigned = <<>>
    /\ assigned' = <<GetNextRoundId(stateFile, imageDir, listable)>>
    /\ last' = [op |-> "resolve", listable |-> listable]
    /\ UNCHANGED <<stateFile, imageDir, summaryLog, proc, clock, runs, lastWritten,
                   console>>
    /\ UNCHANGED <<classifications, stats, jsonFile, now, frame_files,
                   current_index, current_subcategory, show_help, show_stats,
                   running>>

\* state files and directories get_next_round_id is applied to
ResolverStateFiles ==
    {StateMissing, StateUnreadable, StateText(<<>>), StateText(<<Lit("x")>>),
     StateText(<<Num(<<0>>)>>), StateText(<<Num(<<5>>)>>),
     StateText(<<Num(<<1, 2>>), Lit("\n")>>),
     StateText(<<Lit(" "), Num(<<0, 7>>)>>),
     StateText(<<Lit("-"), Num(<<3>>)>>), StateText(<<Lit("+"), Num(<<4>>)>>),
     StateText(<<Num(<<2>>), Lit("x")>>)}

LooseName(r) == <<Lit("round_"), Num(r), Lit("_"), Lit("old"), Lit(".jpg")>>

ResolverDirs ==
    { [exists |-> FALSE, files |-> {}],
      [exists |-> TRUE, files |-> {}],
      [exists |-> TRUE, files |-> {NotesTxt, UpperName(<<9>>, <<1>>, <<5>>)}],
      [exists |-> TRUE, files |-> {FrameName(<<7>>, <<1>>, <<5>>)}],
      [exists |-> TRUE, files |-> {FrameName(<<9>>, <<1>>, <<5>>),
                                   FrameName(<<1, 0>>, <<1>>, <<6>>), NotesTxt}],
      [exists |-> TRUE, files |-> {FrameName(<<3>>, <<2>>, <<5>>),
                                   LooseName(<<6>>)}] }

\* a fresh installation: nothing on disk
InitCollector ==
    /\ stateFile = StateMissing
    /\ imageDir = [exists |-> FALSE, files |-> {}]
    /\ summaryLog = <<>>
    /\ proc = Idle
    /\ clock = StartClock
    /\ runs = 0
    /\ assigned = <<>>
    /\ lastWritten = 0
    /\ console = <<>>

-----------------------------------------------------------------------------
(* Saving and loading the ledger: the methods of FrameClassifier and the
   functions of file_utils.py *)

\* A document written by another program lists its members in an order of its
\* own, kept in the field order; json.load keeps that order in the dict.
OrderedObject(order, members) ==
    [json |-> "object", members |-> members, order |-> order]

\* the keys of an object in the order dict.values() goes through them
KeysInOrder(doc) ==
    IF "order" \in DOMAIN doc THEN doc.order
    ELSE CHOOSE o \in [1..Cardinality(DOMAIN doc.members) -> DOMAIN doc.members] :
            \A i, j \in DOMAIN o : o[i] = o[j] => i = j

\* the positions, in that order, of the members that are not objects
NotRecords(doc) ==
    {i \in DOMAIN KeysInOrder(doc) :
        doc.members[KeysInOrder(doc)[i]].json # "object"}

\* what was read before the error is kept
MutLoadClassifications(jf) ==
    IF jf.kind = "json"
    THEN [cls |-> JsonLoad(jf.data),
          st |-> CountAll(InitStats, JsonLoad(jf.data), DOMAIN JsonLoad(jf.data)),
          logged |-> FALSE]
    ELSE [cls |-> [frame \in {FrameName(<<1>>, <<1>>, <<5>>)} |->
                      ClassificationData(frame, "0", None, 0)],
          st |-> InitStats, logged |-> jf.kind = "malformed"]

\* FrameClassifier._load_classifications on a new object (lines 97-122), for a
\* file that is absent, unparsable or was written by a save: the mapping, the
\* statistics counted from zero, and whether the except branch printed an error
LoadClassifications(jf) ==
    CASE jf.kind = "missing" ->
            [cls |-> EmptyDict, st |-> InitStats, logged |-> FALSE]
      [] jf.kind = "malformed" ->
            [cls |-> EmptyDict, st |-> InitStats, logged |-> TRUE]
      [] jf.data.json # "object" ->
            \* line 106: a str has no values(); the except branch
            [cls |-> EmptyDict, st |-> InitStats, logged |-> TRUE]
      [] NotRecords(jf.data) # {} ->
            \* line 107: info.get raises at the first member that is not an
            \* object; the records before it are counted, the mapping is dropped
            LET keys == KeysInOrder(jf.data)
                first == CHOOSE i \in NotRecords(jf.data) :
                            \A j \in NotRecords(jf.data) : i <= j
            IN  [cls |-> EmptyDict,
                 st |-> CountAll(InitStats, JsonLoad(jf.data),
                                 {keys[i] : i \in 1..(first - 1)}),
                 logged |-> TRUE]
      [] OTHER ->
            [cls |-> JsonLoad(jf.data),
             st |-> CountAll(InitStats, JsonLoad(jf.data), DOMAIN JsonLoad(jf.data)),
             logged |-> FALSE]

\* file_utils.load_classifications: the mapping returned
load_classifications(jf) ==
    CASE jf.kind = "missing" -> [cls |-> EmptyDict, logged |-> FALSE]
      [] jf.kind = "malformed" -> [cls |-> EmptyDict, logged |-> TRUE]
      [] OTHER -> [cls |-> JsonLoad(jf.data), logged |-> FALSE]

\* file_utils.save_classifications: the file it leaves and the value it returns
save_classifications(cls, jf, outcome) ==
    [file |-> CASE outcome = "ok" -> FileOf(cls)
                [] outcome = "open_fails" -> jf
                [] OTHER -> FileMalformed,
     ret |-> IF outcome = "ok" THEN "True" ELSE "False"]

\* a save: which implementation, how it went, what it returned, what it was given
LastSave(via, outcome, ret, mapping) ==
    [op |-> "save", via |-> via, save |-> outcome, save_ret |-> ret,
     mapping |-> mapping]

\* a load: which implementation, the file it found, whether it printed an error,
\* and, when the step before was a save that went through, the mapping it saved
LastLoad(via, jf, logged) ==
    [op |-> "load", via |-> via, file |-> jf.kind, logged |-> logged,
     after_save |-> last.op = "save" /\ last.save = "ok",
     saved |-> IF last.op = "save" /\ last.save = "ok" THEN last.mapping
               ELSE EmptyDict]

\* self._save_classifications()
MethodSave(outcome) ==
    /\ jsonFile' = SaveClassifications(classifications, jsonFile, outcome)
    /\ last' = LastSave("method", outcome, SaveReturn(outcome), classifications)
    /\ UNCHANGED <<classifications, stats, now, frame_files, current_index,
                   current_subcategory, show_help, show_stats, running>>
    /\ UNCHANGED colVars

\* file_utils.save_classifications(classifications)
UtilSave(outcome) ==
    LET r == save_classifications(classifications, jsonFile, outcome)
    IN  /\ jsonFile' = r.file
        /\ last' = LastSave("file_utils", outcome, r.ret, classifications)
        /\ UNCHANGED <<classifications, stats, now, frame_files, current_index,
                       current_subcategory, show_help, show_stats, running>>
        /\ UNCHANGED colVars

\* a new FrameClassifier on the same directory: lines 56-89 of __init__
Reopen ==
    LET r == LoadClassifications(jsonFile)
    IN  /\ classifications' = r.cls
        /\ stats' = r.st
        /\ current_index' = 0
        /\ current_subcategory' = None
        /\ show_help' = FALSE
        /\ show_stats' = FALSE
        /\ running' = TRUE
        /\ last' = LastLoad("method", jsonFile, r.logged)
        /\ UNCHANGED <<jsonFile, now, frame_files>>
        /\ UNCHANGED colVars

\* classifications = file_utils.load_classifications()
UtilLoad ==
    LET r == load_classifications(jsonFile)
    IN  /\ classifications' = r.cls
        /\ last' = LastLoad("file_utils", jsonFile, r.logged)
        /\ UNCHANGED <<stats, jsonFile, now, frame_files, current_index,
                       current_subcategory, show_help, show_stats, running>>
        /\ UNCHANGED colVars

\* ledgers a session can hold: each of two frames unclassified or classified
StoreFrames == {FrameName(<<1>>, <<1>>, <<5>>), FrameName(<<1>>, <<2>>, <<6>>)}
StorePairs == {<<"0", None>>, <<"1", "i">>, <<"2", "f">>}
StoreLedgers ==
    {[frame \in fs |-> ClassificationData(frame, pick[frame][1], pick[frame][2], 0)] :
        fs \in SUBSET StoreFrames, pick \in [StoreFrames -> StorePairs]}

\* what can be on disk when a session saves
StoreFiles ==
    {FileMissing, FileMalformed,
     FileOf(EmptyDict),
     FileOf([frame \in {FrameName(<<1>>, <<1>>, <<5>>)} |->
                ClassificationData(frame, "1", "i", 0)])}

-----------------------------------------------------------------------------
(* The frame inventory: FrameClassifier._load_frame_files and
   file_utils.load_frame_files applied to a directory.  The directory holds a
   set of names; os.listdir yields them in an arbitrary order. *)

\* a directory holds at most MaxEntries names
MaxEntries == 3

\* the frames of the inventory the jumps are explored on
MaxFrames == 12

\* the orders in which os.listdir can yield the names of a directory
Orders(files) ==
    {o \in [1..Cardinality(files) -> files] :
        \A i, j \in 1..Cardinality(files) : o[i] = o[j] => i = j}

\* frame_classifier.py lines 133-170: sys.exit(1) when the directory is absent
\* or cannot be listed, otherwise self.frame_files is set
MethodLoadFrameFiles(dir, listable, listing) ==
    IF ~dir.exists THEN [ret |-> "exit", files |-> <<>>]
    ELSE IF ~listable THEN [ret |-> "exit", files |-> <<>>]
    ELSE [ret |-> "None", files |-> LoadFrameFiles(listing)]

\* a loader in file_utils.py that sorts every round_*.jpg name, without the
\* pattern test
MutUtilLoadFrameFiles(dir, listable, listing) ==
    IF ~dir.exists THEN [ret |-> "list", files |-> <<>>]
    ELSE IF ~listable THEN [ret |-> "list", files |-> <<>>]
    ELSE [ret |-> "list", files |-> SortByKey(SelectSeq(listing, IsJpgRound))]

\* file_utils.py lines 40-80: [] when the directory is absent or cannot be
\* listed, otherwise the filtered names sorted by (round_id, frame_num)
load_frame_files(dir, listable, listing) ==
    IF ~dir.exists THEN [ret |-> "list", files |-> <<>>]
    ELSE IF ~listable THEN [ret |-> "list", files |-> <<>>]
    ELSE LET all_files == SelectSeq(listing, IsJpgRound)
             processed_files == SelectSeq(all_files, MatchFrame)
         IN  [ret |-> "list", files |-> SortByKey(processed_files)]

\* what a call of a loader did: the order os.listdir used, whether the call
\* returned, the inventory it produced
LastList(op, listable, listing, res) ==
    [op |-> op, listable |-> listable, listing |-> listing, ret |-> res.ret,
     files |-> res.files]

\* self._load_frame_files()
MethodList(listable, listing) ==
    /\ listing \in Orders(imageDir.files)
    /\ LET res == MethodLoadFrameFiles(imageDir, listable, listing)
       IN  /\ frame_files' = res.files
           /\ last' = LastList("_load_frame_files", listable, listing, res)
    /\ UNCHANGED <<classifications, stats, jsonFile, now, current_index,
                   current_subcategory, show_help, show_stats, running>>
    /\ UNCHANGED colVars

\* file_utils.load_frame_files(frames_dir)
UtilList(listable, listing) ==
    /\ listing \in Orders(imageDir.files)
    /\ LET res == load_frame_files(imageDir, listable, listing)
       IN  last' = LastList("load_frame_files", listable, listing, res)
    /\ UNCHANGED <<classifications, stats, jsonFile, now, frame_files,
                   current_index, current_subcategory, show_help, show_stats,
                   running>>
    /\ UNCHANGED colVars

\* round_<r>_<s>_<ts>.jpg followed by more text that again ends in .jpg
TrailingName(r, s, ts) == FrameName(r, s, ts) \o <<Lit(".bak"), Lit(".jpg")>>

\* the names a directory is filled from
InventoryNames ==
    {FrameName(<<2>>, <<1>>, <<7>>), FrameName(<<1, 0>>, <<1>>, <<5>>),
     FrameName(<<1>>, <<9>>, <<6>>), FrameName(<<1>>, <<1, 0>>, <<4>>),
     FrameName(<<1>>, <<9>>, <<8>>), UpperName(<<1>>, <<2>>, <<3>>),
     TrailingName(<<1>>, <<3>>, <<3>>), NotesTxt}

InventoryDirs ==
    {[exists |-> FALSE, files |-> {}]} \cup
    {[exists |-> TRUE, files |-> fs] :
        fs \in {x \in SUBSET InventoryNames : Cardinality(x) <= MaxEntries}}

\* a record as another program may have written it: any of the four fields,
\* with any text
ForeignRecord(fields) == JsonObject([k \in DOMAIN fields |-> JsonString(fields[k])])

Frame1 == FrameName(<<1>>, <<1>>, <<5>>)
Frame9 == FrameName(<<9>>, <<9>>, <<9>>)

\* the ledger files a session is started on: absent, unparsable, written by a
\* save, and documents of other origin
SessionFiles ==
    {FileMissing, FileMalformed,
     FileOf([frame \in {Frame1} |-> ClassificationData(frame, "1", "i", 0)]),
     FileOf([frame \in {Frame1, Frame9} |-> ClassificationData(frame, "0", None, 0)]),
     \* "null" with a subcategory
     [kind |-> "json", data |-> JsonObject([frame \in {Frame1} |->
        ForeignRecord([category_name |-> "null", subcategory_name |-> "fim"])])],
     \* a category that is not in CATEGORIES
     [kind |-> "json", data |-> JsonObject([frame \in {Frame1} |->
        ForeignRecord([category_name |-> "other", subcategory_name |-> "inicio"])])],
     \* no category_name
     [kind |-> "json", data |-> JsonObject([frame \in {Frame1} |->
        ForeignRecord([category_id |-> "1", subcategory_name |-> "inicio"])])],
     \* a category without its subcategory
     [kind |-> "json", data |-> JsonObject([frame \in {Frame1} |->
        ForeignRecord([category_id |-> "1", category_name |-> "forno_enchendo"])])],
     \* a subcategory that is not in SUBCATEGORIES
     [kind |-> "json", data |-> JsonObject([frame \in {Frame1} |->
        ForeignRecord([category_name |-> "forno_enchendo",
                       subcategory_name |-> "x"])])],
     \* a member that is not an object, after a record
     [kind |-> "json", data |-> OrderedObject(<<Frame1, Frame9>>,
        (Frame1 :> DumpRecord(ClassificationData(Frame1, "1", "i", 0)))
        @@ (Frame9 :> JsonString("x")))],
     \* a document that is not an object
     [kind |-> "json", data |-> JsonString("x")]}

\* FrameClassifier(frames_dir) on a ledger file
Open(jf, listing) ==
    /\ jsonFile = jf
    /\ classifications = LoadClassifications(jf).cls
    /\ stats = LoadClassifications(jf).st
    /\ now = 0
    /\ frame_files = LoadFrameFiles(listing)
    /\ frame_files # <<>>           \* lines 91-93: sys.exit(1) otherwise
    /\ current_index = 0
    /\ current_subcategory = None
    /\ show_help = FALSE
    /\ show_stats = FALSE
    /\ running = TRUE
    /\ last = NoLast

\* a directory of MaxFrames frames of one round, listed in order
LongListing == [i \in 1..MaxFrames |-> FrameName(<<1>>, StrOf(i), <<5>>)]

-----------------------------------------------------------------------------
(* Specifications *)

\* the ledger under direct calls of _classify_frame with any arguments
NextLedger ==
    \E frame \in FrameArgs, category \in CategoryArgs,
       subcategory \in SubcategoryArgs, outcome \in SaveOutcomes :
        CallClassify(frame, category, subcategory, outcome)

InitLedger == InitClassifier /\ InitCollector

SpecLedger == InitLedger /\ [][NextLedger]_vars

\* the classifier driven by its keyboard loop
NextController ==
    \/ \E key \in KeyInputs, outcome \in SaveOutcomes : KeyQuit(key, outcome)
    \/ \E key \in KeyInputs : KeyHelp(key)
    \/ \E key \in KeyInputs : KeyStats(key)
    \/ \E key \in KeyInputs : KeySubcategory(key)
    \/ \E key \in KeyInputs, outcome \in SaveOutcomes : KeyCategory(key, outcome)
    \/ \E key \in KeyInputs : KeyNext(key)
    \/ \E key \in KeyInputs : KeyPrev(key)
    \/ \E key \in KeyInputs : KeyJump(key)
    \/ \E key \in KeyInputs : KeyOther(key)

InitController == InitClassifier /\ InitCollector

SpecController == InitController /\ [][NextController]_vars

\* The capture script, run again and again.  The runs differ in how they start
\* and end; inside the loop every read takes one interval, every write of a
\* frame succeeds and the summary log can be appended to.
NextCollector ==
    \/ \E env \in RoundSettings, listable \in BOOLEAN, dirOk \in BOOLEAN,
          opened \in BOOLEAN : StartRun(env, listable, dirOk, opened)
    \/ \E ret \in BOOLEAN, frameOk \in BOOLEAN, stateOutcome \in WriteOutcomes :
            CaptureStep(ret, frameOk, "written", interval_seconds, "ok", stateOutcome)
    \/ \E stateOutcome \in WriteOutcomes : EndOfDuration("ok", stateOutcome)
    \/ Kill
    \/ \E content \in StateContents : TamperStateFile(content)

InitCapture == Construct(CHOOSE l \in Listings : TRUE) /\ InitCollector

SpecCollector == InitCapture /\ [][NextCollector]_vars

\* One capture run after another, each left to reach its shutdown, with every
\* way a read, a write of a frame, the append to the summary log and the write
\* of the state file can go.
NextCapture ==
    \/ \E env \in CaptureSettings, dirOk \in BOOLEAN, opened \in BOOLEAN :
            StartRun(env, TRUE, dirOk, opened)
    \/ \E ret \in BOOLEAN, frameOk \in BOOLEAN, written \in ImwriteOutcomes,
          dt \in ReadTimes, logOutcome \in AppendOutcomes,
          stateOutcome \in WriteOutcomes :
            CaptureStep(ret, frameOk, written, dt, logOutcome, stateOutcome)
    \/ \E logOutcome \in AppendOutcomes, stateOutcome \in WriteOutcomes :
            EndOfDuration(logOutcome, stateOutcome)

SpecCapture == InitCapture /\ [][NextCapture]_vars

\* a session of direct calls of _classify_frame, started on any ledger file
InitSession ==
    /\ \E jf \in SessionFiles : Open(jf, CHOOSE l \in Listings : TRUE)
    /\ InitCollector

\* the calls of a session; every save goes through
NextSession ==
    \E frame \in FrameArgs, category \in CategoryArgs,
       subcategory \in SubcategoryArgs :
        CallClassify(frame, category, subcategory, "ok")

SpecSession == InitSession /\ [][NextSession]_vars

\* a session that only browses: the keyboard loop without the category keys,
\* on any ledger file and an inventory long enough for a jump of 10 to land
\* before the last frame; the final save goes through
InitBrowse ==
    /\ \E jf \in SessionFiles : Open(jf, LongListing)
    /\ InitCollector

NextBrowse ==
    \/ \E key \in BrowseKeys : KeyQuit(key, "ok")
    \/ \E key \in BrowseKeys : KeyHelp(key)
    \/ \E key \in BrowseKeys : KeyStats(key)
    \/ \E key \in BrowseKeys : KeySubcategory(key)
    \/ \E key \in BrowseKeys : KeyNext(key)
    \/ \E key \in BrowseKeys : KeyPrev(key)
    \/ \E key \in BrowseKeys : KeyJump(key)
    \/ \E key \in BrowseKeys : KeyOther(key)

SpecBrowse == InitBrowse /\ [][NextBrowse]_vars

\* get_next_round_id as a function of the state file and the directory
InitResolver ==
    /\ Construct(CHOOSE l \in Listings : TRUE)
    /\ stateFile \in ResolverStateFiles
    /\ imageDir \in ResolverDirs
    /\ summaryLog = <<>>
    /\ proc = Idle
    /\ clock = StartClock
    /\ runs = 0
    /\ assigned = <<>>
    /\ lastWritten = 0
    /\ console = <<>>

NextResolver == \E listable \in BOOLEAN : Resolve(listable)

SpecResolver == InitResolver /\ [][NextResolver]_vars


\* a ledger is saved, by either implementation, and loaded back, by either
InitStore ==
    /\ classifications \in StoreLedgers
    /\ stats = RecomputeStats(classifications)
    /\ jsonFile \in StoreFiles
    /\ now = 1
    /\ frame_files = LoadFrameFiles(CHOOSE l \in Listings : TRUE)
    /\ current_index = 0
    /\ current_subcategory = None
    /\ show_help = FALSE
    /\ show_stats = FALSE
    /\ running = TRUE
    /\ last = NoLast
    /\ InitCollector

NextStore ==
    \/ \E outcome \in SaveOutcomes : MethodSave(outcome)
    \/ \E outcome \in SaveOutcomes : UtilSave(outcome)
    \/ Reopen
    \/ UtilLoad

SpecStore == InitStore /\ [][NextStore]_vars

\* the two inventory loaders applied to a directory
InitInventory ==
    /\ classifications = EmptyDict
    /\ stats = InitStats
    /\ jsonFile = FileMissing
    /\ now = 1
    /\ frame_files = <<>>
    /\ current_index = 0
    /\ current_subcategory = None
    /\ show_help = FALSE
    /\ show_stats = FALSE
    /\ running = FALSE
    /\ last = NoLast
    /\ stateFile = StateMissing
    /\ imageDir \in InventoryDirs
    /\ summaryLog = <<>>
    /\ proc = Idle
    /\ clock = StartClock
    /\ runs = 0
    /\ assigned = <<>>
    /\ lastWritten = 0
    /\ console = <<>>

NextInventory ==
    \/ \E listable \in BOOLEAN, listing \in Orders(imageDir.files) :
            MethodList(listable, listing)
    \/ \E listable \in BOOLEAN, listing \in Orders(imageDir.files) :
            UtilList(listable, listing)

SpecInventory == InitInventory /\ [][NextInventory]_vars


-----------------------------------------------------------------------------
(* Properties *)

Range(seq) == {seq[i] : i \in DOMAIN seq}

\* the file holds a document that loads as the mapping
FileHolds(jf, mapping) == jf.kind = "json" /\ JsonLoad(jf.data) = mapping

RECURSIVE SumOver(_, _)
SumOver(f, keys) ==
    IF keys = {} THEN 0
    ELSE LET k == CHOOSE x \in keys : TRUE IN f[k] + SumOver(f, keys \ {k})

\* the bucket of a (category id, subcategory id) pair
Bucket(category, subcategory) ==
    IF category = "0" THEN "null"
    ELSE StatKey(CATEGORIES[category], SUBCATEGORIES[subcategory])

\* the (category, subcategory) pairs of the data model
ValidPair(category, subcategory) ==
    \/ category = "0" /\ subcategory = None
    \/ category \in {"1", "2", "3", "4", "5"} /\ subcategory \in {"i", "m", "f"}

\* C1: after any sequence of direct classify calls (first classifications,
\* reclassifications, no-ops, rejected calls), from an empty ledger with zeroed
\* statistics, every bucket equals the count recomputed over the records.
C1_StatsEqualRecompute == stats = RecomputeStats(classifications)

\* C1 witness: a frame counted in one event bucket was moved to another
C1_Witness ==
    /\ last.kind = "reclassified"
    /\ last.category = "2" /\ last.subcategory = "f"
    /\ stats[StatKey("sinterizacao_acontecendo", "fim")] = 1
    /\ SumOver(stats, StatKeys) = 1

\* the frame-identity pattern round_<int>_<int>_<int>.jpg, the whole name
IsFrameName(name) == MatchFrame(name) /\ Len(name) = 7

\* C2: the round id of a run is strictly greater than the round id in every
\* frame filename that was on disk before the run, so the run writes no frame
\* whose (round, sequence) key an existing frame has.
C2_RoundAboveDisk ==
    proc.pc = "capturing" =>
        \A f \in imageDir.files \ Range(proc.round_filenames) :
            IsFrameName(f) => IntOf(f[2].d) < proc.current_round_id

\* the value the state file counts as: 0 when missing, unreadable or unparsable
Persisted(sf) ==
    IF sf.kind = "text" /\ ParseInt(sf.text).ok THEN ParseInt(sf.text).val ELSE 0

\* the rounds of the names in the directory that match the scan pattern
RoundsIn(dir) == {IntOf(f[2].d) : f \in {g \in dir.files : MatchRound(g)}}

\* the value the directory counts as: 0 when missing or without a matching file
Scanned(dir) ==
    IF ~dir.exists \/ RoundsIn(dir) = {} THEN 0
    ELSE CHOOSE m \in RoundsIn(dir) : \A r \in RoundsIn(dir) : m >= r

\* C3: get_next_round_id returns max(persisted, scanned) + 1 for every state
\* file and directory, the persisted value being 0 when the state file is
\* missing, unparsable or unreadable and the scanned value 0 when the directory
\* is missing or has no matching file; it returns 1 when neither has data.
C3_NextRound ==
    assigned # <<>> =>
        /\ assigned[1] = Max(Persisted(stateFile), Scanned(imageDir)) + 1
        /\ (Persisted(stateFile) <= 0 /\ Scanned(imageDir) = 0) => assigned[1] = 1

\* what get_next_round_id does compute: a directory whose listing fails counts
\* as 0 like a missing one
NextRoundWhenListed ==
    assigned # <<>> =>
        assigned[1] =
            Max(Persisted(stateFile),
                IF last.listable THEN Scanned(imageDir) ELSE 0) + 1

\* the state file says 5, the highest round on disk is 7, the result is 8
NextRoundExample ==
    /\ assigned = <<8>>
    /\ Persisted(stateFile) = 5
    /\ Scanned(imageDir) = 7

\* C4: the round ids assigned to successive runs are strictly increasing
C4_StrictlyIncreasing ==
    \A i, j \in DOMAIN assigned : i < j => assigned[i] < assigned[j]

\* C5: a classify call directly after a call with the same arguments, a valid
\* (category, subcategory) pair, reports no change and leaves the record with
\* its timestamp, the statistics, the ledger file and the cursor as they were.
C5_RepeatIsNoOp ==
    [][(last'.called /\ last'.repeat
            /\ ValidPair(last'.category, last'.subcategory))
        => /\ last'.kind = "noop"
           /\ classifications' = classifications
           /\ stats' = stats
           /\ jsonFile' = jsonFile
           /\ current_index' = current_index]_vars

\* C5 witness: the same category key pressed twice on a frame, subcategory armed
C5_Witness ==
    /\ last.called /\ last.repeat /\ last.kind = "noop"
    /\ last.category = "1" /\ last.subcategory = "f"

\* C6: a reclassification from (A,a) to (B,b) takes exactly 1 from bucket (A,a),
\* adds exactly 1 to bucket (B,b), changes no other bucket, and the buckets sum
\* to the number of classified frames before and after.
C6_ReclassifyMovesOne ==
    [][last'.kind = "reclassified" =>
        LET old == classifications[last'.frame]
            from == Bucket(old.category_id, Get(old, "subcategory_id"))
            to == Bucket(last'.category, last'.subcategory)
        IN  /\ from # to
            /\ stats'[from] = stats[from] - 1
            /\ stats'[to] = stats[to] + 1
            /\ \A k \in StatKeys \ {from, to} : stats'[k] = stats[k]
            /\ SumOver(stats, StatKeys) = Cardinality(DOMAIN classifications)
            /\ SumOver(stats', StatKeys) = Cardinality(DOMAIN classifications')]_vars

\* C6 witness: a frame went from category 1 to category 2, subcategory f armed
C6_Witness ==
    /\ last.op = "category" /\ last.kind = "reclassified"
    /\ last.category = "2" /\ last.subcategory = "f"
    /\ stats[StatKey("sinterizacao_acontecendo", "fim")] = 1
    /\ \A k \in StatKeys \ {StatKey("sinterizacao_acontecendo", "fim")} : stats[k] = 0

\* C7: a call whose category is outside {0..5}, or whose category is not 0 and
\* whose subcategory is absent or outside {i,m,f}, reports failure and leaves
\* the ledger, the statistics and the ledger file unchanged.
C7_InvalidIsRejected ==
    [][(last'.called /\ last'.invalid)
        => /\ last'.kind = "rejected"
           /\ classifications' = classifications
           /\ stats' = stats
           /\ jsonFile' = jsonFile]_vars

\* C7 witness: a rejected call on a ledger that holds a record
C7_Witness ==
    /\ last.called /\ last.invalid /\ last.kind = "rejected"
    /\ classifications # EmptyDict

\* C8: every record carries subcategory_id and subcategory_name if and only if
\* its category is not 0, and a carried subcategory is one of i, m, f.
C8_SubcategoryIffEvent ==
    \A f \in DOMAIN classifications :
        LET r == classifications[f]
        IN  /\ ("subcategory_id" \in DOMAIN r) <=> (r.category_id # "0")
            /\ ("subcategory_name" \in DOMAIN r) <=> (r.category_id # "0")
            /\ "subcategory_id" \in DOMAIN r => r.subcategory_id \in {"i", "m", "f"}

\* C9: in the controller, category key 0 leaves a record without subcategory_id
\* and subcategory_name for the frame, whatever subcategory is pending, and
\* leaves the pending subcategory as it was.
C9_NullStoresNoSubcategory ==
    [][(last'.op = "category" /\ last'.called /\ last'.category = "0")
        => /\ last'.frame \in DOMAIN classifications'
           /\ "subcategory_id" \notin DOMAIN classifications'[last'.frame]
           /\ "subcategory_name" \notin DOMAIN classifications'[last'.frame]
           /\ current_subcategory' = current_subcategory]_vars

\* C9 witness: key 0 stored a record while a subcategory was pending
C9_Witness ==
    /\ last.op = "category" /\ last.called /\ last.category = "0"
    /\ last.kind \in {"first", "reclassified"}
    /\ current_subcategory = "i"

\* C10: the cursor stays within 0 .. len(inventory)-1; navigate-next and
\* navigate-prev move it by +1 and -1, except at the bound, where it stays.
C10_CursorInBounds ==
    /\ [](0 <= current_index /\ current_index <= Len(frame_files) - 1)
    /\ [][/\ last'.op = "next" =>
               current_index' = IF current_index = Len(frame_files) - 1
                                THEN current_index ELSE current_index + 1
          /\ last'.op = "prev" =>
               current_index' = IF current_index = 0
                                THEN 0 ELSE current_index - 1]_vars

\* C10 witness: navigate-next pressed on the last of several frames
C10_Witness ==
    /\ last.op = "next"
    /\ Len(frame_files) > 1
    /\ last.prev_index = Len(frame_files) - 1
    /\ current_index = Len(frame_files) - 1

\* the cursor one step on, held at the last index
OneOn(index) == IF index + 1 > Len(frame_files) - 1 THEN Len(frame_files) - 1
                ELSE index + 1

\* C11: a category key advances the cursor by 1 (clamped to the last index)
\* exactly when the call is applied on a frame that had no record; an applied
\* reclassification, a no-op, a rejected call and an ignored key leave it.
C11_AdvanceOnFirstOnly ==
    [][last'.op = "category" =>
        current_index' = IF last'.kind = "first" THEN OneOn(current_index)
                         ELSE current_index]_vars

\* C11 witness: a first classification on the first of two frames moved the
\* cursor to the second
C11_Witness ==
    /\ last.op = "category" /\ last.kind = "first"
    /\ Len(frame_files) = 2
    /\ last.prev_index = 0 /\ current_index = 1

\* C12: a category key 1-5 with no subcategory armed changes nothing; with one
\* armed (and no overlay) it classifies the frame under the cursor with the
\* armed subcategory, and the cursor follows the rule of category 0.
C12_NeedsArmedSubcategory ==
    [][last'.op = "category" /\ last'.category # "0" =>
        IF current_subcategory = None
        THEN /\ ~last'.called
             /\ UNCHANGED <<classifications, stats, jsonFile, current_index,
                            current_subcategory>>
        ELSE /\ current_subcategory' = current_subcategory
             /\ (~show_help /\ ~show_stats) =>
                   /\ last'.called
                   /\ last'.frame = frame_files[current_index + 1]
                   /\ last'.subcategory = current_subcategory
                   /\ last'.category \in {"1", "2", "3", "4", "5"}
                   /\ last'.kind \in {"first", "reclassified", "noop"}
                   /\ (last'.kind = "noop") =
                         (/\ last'.frame \in DOMAIN classifications
                          /\ classifications[last'.frame].category_id = last'.category
                          /\ Get(classifications[last'.frame], "subcategory_id")
                                = current_subcategory)
                   /\ last'.kind # "noop" =>
                         /\ classifications'[last'.frame].category_id = last'.category
                         /\ classifications'[last'.frame].subcategory_id
                               = current_subcategory
                   /\ current_index' = IF last'.kind = "first"
                                       THEN OneOn(current_index)
                                       ELSE current_index]_vars

\* C12 witness: key 1 pressed with nothing armed, on a ledger that holds a record
C12_Witness ==
    /\ last.op = "category" /\ last.category = "1" /\ ~last.called
    /\ current_subcategory = None
    /\ ~show_help /\ ~show_stats
    /\ classifications # EmptyDict

\* C13: help and statistics are never both shown; toggling one that is hidden
\* shows it and hides the other, toggling one that is shown clears both.
C13_OverlaysExclusive ==
    /\ [](~(show_help /\ show_stats))
    /\ [][/\ last'.op = "help" =>
               /\ show_help' = ~show_help
               /\ ~show_stats'
          /\ last'.op = "stats" =>
               /\ show_stats' = ~show_stats
               /\ ~show_help']_vars

\* C13 witness: help was toggled while the statistics were shown
C13_Witness ==
    /\ last.op = "help" /\ last.prev_overlay = "stats"
    /\ show_help /\ ~show_stats

\* C14: while an overlay is shown a category key changes nothing.
C14_OverlayIgnoresCategory ==
    [][(last'.op = "category" /\ (show_help \/ show_stats)) =>
        /\ ~last'.called
        /\ UNCHANGED <<classifications, stats, jsonFile, current_index,
                       current_subcategory, show_help, show_stats>>]_vars

\* C14 witness: key 0 pressed under the statistics overlay, a subcategory armed
C14_Witness ==
    /\ last.op = "category" /\ last.category = "0" /\ ~last.called
    /\ last.prev_overlay = "stats" /\ show_stats
    /\ current_subcategory = "f"

\* C15: selecting subcategory X sets the pending subcategory to X and leaves the
\* cursor, the ledger and the statistics; every other event keeps the pending
\* subcategory.
C15_PendingSubcategory ==
    [][IF last'.op = "subcategory"
       THEN /\ current_subcategory' = last'.subcategory
            /\ last'.subcategory \in {"i", "m", "f"}
            /\ UNCHANGED <<current_index, classifications, stats>>
       ELSE current_subcategory' = current_subcategory]_vars

\* C15 witness: f was selected over i, then a classification used it
C15_Witness ==
    /\ last.op = "category" /\ last.kind = "reclassified"
    /\ last.subcategory = "f" /\ current_subcategory = "f"
    /\ classifications[last.frame].subcategory_id = "f"

\* C16 as stated: a quit key, whatever overlay is shown, ends the loop and
\* leaves the ledger file holding the whole in-memory ledger; after it no event
\* is processed.
C16_QuitPersists ==
    /\ [][last'.op = "quit" =>
            /\ ~running'
            /\ FileHolds(jsonFile', classifications)]_vars
    /\ [][running]_vars

\* C16 amended: a quit key, whatever overlay is shown, ends the loop and calls
\* the save with the whole in-memory ledger, unchanged; a save that goes through
\* leaves the file holding that ledger, a save that fails does not stop the
\* quit; after it no event is processed.
C16_QuitSavesAndEnds ==
    /\ [][last'.op = "quit" =>
            /\ ~running'
            /\ last'.save # "none"
            /\ jsonFile' = SaveClassifications(classifications, jsonFile, last'.save)
            /\ last'.save = "ok" => FileHolds(jsonFile', classifications)
            /\ UNCHANGED <<classifications, stats, current_index>>]_vars
    /\ [][running]_vars

\* C16 witness: quit under the help overlay wrote a ledger of one record
C16_Witness ==
    /\ last.op = "quit" /\ ~running
    /\ last.prev_overlay = "help" /\ show_help
    /\ Cardinality(DOMAIN classifications) = 1
    /\ FileHolds(jsonFile, classifications)

\* C17: when the save fails during an applied classify, nothing is raised and
\* nothing is rolled back: the new record and the updated statistics stay in
\* memory, the call reports success, and the save returns a failure value, one
\* that a save that went through does not return.
C17_FailedSaveKeepsMemory ==
    [][(last'.called /\ last'.save \in {"open_fails", "write_fails"}) =>
        /\ last'.kind \in {"first", "reclassified"}
        /\ last'.frame \in DOMAIN classifications'
        /\ classifications'[last'.frame].category_id = last'.category
        /\ classifications'[last'.frame].classified_at = now
        /\ classifications' # classifications
        /\ stats' = RecomputeStats(classifications')
        /\ last'.save_ret # SaveReturn("ok")]_vars

\* C18: a save that goes through, in an applied classify or at quit, leaves the
\* file holding exactly the in-memory mapping; a save that fails leaves the
\* file holding what the last save that went through wrote.
C18_FileFollowsMemory ==
    [][/\ last'.save = "ok" => FileHolds(jsonFile', classifications')
       /\ last'.save \in {"open_fails", "write_fails"} => jsonFile' = jsonFile
       /\ last'.save = "none" => jsonFile' = jsonFile]_vars

\* C19: a load directly after a save that went through gives the mapping that
\* was saved: the same frame keys and, record by record, the same fields with
\* the same values, the subcategory fields present exactly when they were.
C19_RoundTrip ==
    (last.op = "load" /\ last.after_save) =>
        /\ DOMAIN classifications = DOMAIN last.saved
        /\ \A frame \in DOMAIN classifications :
              /\ DOMAIN classifications[frame] = DOMAIN last.saved[frame]
              /\ \A k \in DOMAIN classifications[frame] :
                    classifications[frame][k] = last.saved[frame][k]

\* C19 witness: two records, one with and one without subcategory fields, were
\* saved over another file and loaded back
C19_Witness ==
    /\ last.op = "load" /\ last.after_save
    /\ Cardinality(DOMAIN classifications) = 2
    /\ \E f, g \in DOMAIN classifications :
          /\ "subcategory_id" \in DOMAIN classifications[f]
          /\ "subcategory_id" \notin DOMAIN classifications[g]

\* C20: a load that finds no ledger file, or one whose content is malformed,
\* gives an empty mapping (and returns: no load ends in an exception).
C20_LoadOfNothing ==
    (last.op = "load" /\ last.file \in {"missing", "malformed"}) =>
        /\ classifications = EmptyDict
        /\ last.logged = (last.file = "malformed")

\* C20 witness: a malformed file was loaded by the classifier, which counted
\* nothing
C20_Witness ==
    /\ last.op = "load" /\ last.via = "method" /\ last.file = "malformed"
    /\ last.logged
    /\ classifications = EmptyDict
    /\ stats = InitStats

-----------------------------------------------------------------------------
(* The frame inventory *)

ListOps == {"_load_frame_files", "load_frame_files"}

\* the pair (round_id, sequence) of a name of the inventory, as integers
RoundKey(name) == <<IntOf(name[2].d), IntOf(name[4].d)>>

KeyBefore(a, b) == a[1] < b[1] \/ (a[1] = b[1] /\ a[2] <= b[2])

\* C21: a listing returns names of the directory in ascending order of
\* (round_id, sequence) compared as integers, and when the directory is absent
\* or empty it returns the empty sequence and does not end the process.
C21_SortedInventory ==
    (last.op \in ListOps /\ last.listable) =>
        /\ last.ret # "exit"
        /\ Range(last.files) \subseteq imageDir.files
        /\ \A i, j \in 1..Len(last.files) :
                i < j => KeyBefore(RoundKey(last.files[i]), RoundKey(last.files[j]))
        /\ (~imageDir.exists \/ imageDir.files = {}) => last.files = <<>>

\* the whole name is round_<int>_<int>_<int>.jpg, the extension in any case
WholeMatch(name) ==
    /\ Len(name) = 7
    /\ name[1].t = "round_"
    /\ IsNum(name[2])
    /\ name[3].t = "_"
    /\ IsNum(name[4])
    /\ name[5].t = "_"
    /\ IsNum(name[6])
    /\ Lower(name[7]).t = ".jpg"

\* C22: after a listing of a directory, a name of the directory is in the
\* inventory if and only if the whole name matches round_<int>_<int>_<int>.jpg
\* with the extension compared case-insensitively.
C22_ExactPattern ==
    (last.op \in ListOps /\ last.listable /\ imageDir.exists) =>
        \A f \in imageDir.files : (f \in Range(last.files)) <=> WholeMatch(f)

\* the inventory the loader of the last call produces when os.listdir yields
\* the names in the order o
Listed(op, o) ==
    IF op = "_load_frame_files" THEN MethodLoadFrameFiles(imageDir, TRUE, o).files
    ELSE load_frame_files(imageDir, TRUE, o).files

\* C23: the inventory a listing returns is the same for every order in which
\* the directory listing can yield the names of the directory.
C23_OrderIndependent ==
    (last.op \in ListOps /\ last.listable /\ imageDir.exists) =>
        \A o \in Orders(imageDir.files) : Listed(last.op, o) = last.files

-----------------------------------------------------------------------------
(* The capture run *)

\* the block write_metadata appends for the run that is shutting down
RoundBlock ==
    [round_id |-> proc.current_round_id, url |-> MaskedUrl(proc.env),
     frames_saved |-> proc.frames_saved_count]

\* C24 as stated: a failed read ends the loop without writing a further frame,
\* and the run appends exactly one metadata block, with the frames counted so
\* far, and leaves the round id in the state file.
C24_ReadFailureShutsDown ==
    [][(proc.pc = "capturing" /\ proc'.step = "read_failed") =>
        /\ proc'.pc = "idle"
        /\ imageDir' = imageDir
        /\ summaryLog' = Append(summaryLog, RoundBlock)
        /\ Persisted(stateFile') = proc.current_round_id]_vars

\* C24 amended: a failed read ends the loop without writing a further frame,
\* and the run reaches write_metadata and save_round_id; an append that goes
\* through adds exactly one block with the frames counted so far, a write that
\* goes through leaves the round id in the state file, and when either fails
\* nothing is raised: the log is as it was, the state file is as it was or empty.
C24_ReadFailureReachesShutdown ==
    [][(proc.pc = "capturing" /\ proc'.step = "read_failed") =>
        /\ proc'.pc = "idle"
        /\ imageDir' = imageDir
        /\ proc'.log \in AppendOutcomes
        /\ proc'.state \in WriteOutcomes
        /\ summaryLog' = IF proc'.log = "ok" THEN Append(summaryLog, RoundBlock)
                         ELSE summaryLog
        /\ proc'.state = "ok" =>
                /\ Persisted(stateFile') = proc.current_round_id
                /\ lastWritten' = proc.current_round_id
        /\ proc'.state = "open_fails" => stateFile' = stateFile
        /\ proc'.state = "write_fails" => stateFile' = StateText(<<>>)]_vars

\* C24 witness: a read failed after one frame was saved; the block reporting
\* one frame is in the log and the round id is in the state file
C24_Witness ==
    /\ proc.step = "read_failed" /\ proc.log = "ok" /\ proc.state = "ok"
    /\ Len(summaryLog) = 1
    /\ summaryLog[1].round_id = 1 /\ summaryLog[1].frames_saved = 1
    /\ Persisted(stateFile) = 1
    /\ Cardinality(imageDir.files) = 1

\* the frames the running capture has saved, in the order it saved them
SavedFrames == SelectSeq(proc.round_filenames, LAMBDA f : f \in imageDir.files)

\* the sequence number in a frame filename
SequenceOf(name) == IntOf(name[4].d)

\* C25: in a capture run the k-th frame saved carries sequence number k, and
\* an iteration that read an empty frame writes no file, counts no frame and
\* leaves the next sequence number as it was.
C25_SequenceNumbers ==
    /\ [](proc.pc = "capturing" =>
            \A k \in 1..Len(SavedFrames) : SequenceOf(SavedFrames[k]) = k)
    /\ [][(proc.pc = "capturing" /\ proc'.step = "empty") =>
            /\ imageDir' = imageDir
            /\ proc'.frames_saved_count = proc.frames_saved_count
            /\ proc'.round_filenames = proc.round_filenames]_vars

\* the capture time in a frame filename, in milliseconds
TimestampOf(name) == IntOf(name[6].d)

SettingMissing(env) == \E k \in DOMAIN env : env[k] = ""

\* C27: a run started with a setting missing returns at startup: it writes no
\* frame, resolves no round id and leaves the directory, the state file and
\* the summary log as they were.
C27_MissingSettingStops ==
    [][(runs' = runs + 1 /\ SettingMissing(proc'.env)) =>
        /\ proc'.pc = "idle"
        /\ proc'.step = "no_settings"
        /\ assigned' = assigned
        /\ imageDir' = imageDir
        /\ stateFile' = stateFile
        /\ lastWritten' = lastWritten
        /\ summaryLog' = summaryLog]_vars

\* C27 witness: after a run that saved a frame, a run was started without the
\* camera address and returned at once
C27_Witness ==
    /\ runs = 2
    /\ proc.step = "no_settings" /\ proc.env.ip = "" /\ proc.env.password # ""
    /\ Len(assigned) = 1
    /\ Len(summaryLog) = 1
    /\ imageDir.files # {}

\* the passwords the runs are started with
Passwords == {e.password : e \in Settings} \ {""}

\* C28: no message printed by a run and no block of the summary log contains
\* the password, so that the text emitted is the same whichever password the
\* run was started with.
C28_PasswordMasked ==
    /\ \A i \in DOMAIN console : \A p \in Passwords : p \notin Range(console[i])
    /\ \A i \in DOMAIN summaryLog :
            \A p \in Passwords : p \notin Range(summaryLog[i].url)

-----------------------------------------------------------------------------
(* A session on any ledger file *)

\* C29: every bucket of the statistics holds a count that is >= 0, after the
\* load of any ledger file and after every classification and reclassification.
C29_CountsNonNegative == \A k \in DOMAIN stats : stats[k] >= 0

\* C29 witness: a record loaded from the file was reclassified and its bucket
\* is back at 0
C29_Witness ==
    /\ last.called /\ last.kind = "reclassified" /\ last.frame = Frame1
    /\ last.category = "2" /\ last.subcategory = "f"
    /\ stats[StatKey("forno_enchendo", "inicio")] = 0
    /\ stats[StatKey("sinterizacao_acontecendo", "fim")] = 1
    /\ jsonFile # FileMissing

\* C30: a call of _classify_frame removes no key of the ledger and changes no
\* record but that of its frame: a first classification adds the key of its
\* frame and no other, a reclassification keeps the keys and replaces the
\* record of its frame.
C30_NoRecordRemoved ==
    [][/\ DOMAIN classifications \subseteq DOMAIN classifications'
       /\ \A k \in DOMAIN classifications :
            (k # last'.frame \/ ~last'.called) => classifications'[k] = classifications[k]
       /\ (last'.called /\ last'.kind = "first") =>
            /\ last'.frame \notin DOMAIN classifications
            /\ DOMAIN classifications' = DOMAIN classifications \cup {last'.frame}
       /\ (last'.called /\ last'.kind = "reclassified") =>
            /\ DOMAIN classifications' = DOMAIN classifications
            /\ classifications'[last'.frame] # classifications[last'.frame]
            /\ classifications'[last'.frame].category_id = last'.category
       /\ (last'.called /\ last'.kind \in {"noop", "rejected"}) =>
            classifications' = classifications]_vars

\* C30 witness: with two records loaded, one was reclassified and the other is
\* as it was loaded
C30_Witness ==
    /\ last.called /\ last.kind = "reclassified" /\ last.frame = Frame1
    /\ DOMAIN classifications = {Frame1, Frame9}
    /\ classifications[Frame1].category_id = "1"
    /\ classifications[Frame9] = ClassificationData(Frame9, "0", None, 0)

\* C31: right after the constructor has loaded the ledger file, whatever the
\* file holds, the statistics equal the count recomputed over the in-memory
\* mapping, and the buckets add up to the number of records of that mapping.
C31_LoadedStatsRecomputed ==
    last.op = "init" =>
        /\ stats = RecomputeStats(classifications)
        /\ SumOver(stats, StatKeys) = Cardinality(DOMAIN classifications)

-----------------------------------------------------------------------------
(* The keys of the controller *)

\* the codes the source lists for the two arrow keys (lines 780 and 783)
RightArrowCodes == {2555904, 65363, 83}
LeftArrowCodes == {2424832, 65361, 81}

\* C32: every code listed for the right arrow moves the cursor forward by one,
\* up to the last frame, every code listed for the left arrow moves it back by
\* one, down to the first; none of them ends the loop or toggles an overlay.
C32_ArrowCodes ==
    [][/\ last'.key \in RightArrowCodes =>
            /\ last'.op = "next"
            /\ current_index' = Min(current_index + 1, Len(frame_files) - 1)
       /\ last'.key \in LeftArrowCodes =>
            /\ last'.op = "prev"
            /\ current_index' = IF current_index = 0 THEN 0 ELSE current_index - 1
       /\ last'.key \in RightArrowCodes \cup LeftArrowCodes =>
            /\ running'
            /\ show_help' = show_help
            /\ show_stats' = show_stats]_vars

\* the distance of the jump a key code asks for (lines 788, 792, 796)
JumpOf(key) == CASE key = 55 -> 10 [] key = 56 -> 100 [] OTHER -> 1000

\* C33: a jump key moves the cursor forward by its N, or to the last frame
\* when fewer than N frames follow, whatever overlay is shown, and leaves the
\* ledger, its file, the statistics, the pending subcategory and the overlays
\* as they were.
C33_JumpClamped ==
    [][last'.key \in {55, 56, 57} =>
        /\ last'.op = "jump"
        /\ current_index' =
              IF current_index + JumpOf(last'.key) <= Len(frame_files) - 1
              THEN current_index + JumpOf(last'.key)
              ELSE Len(frame_files) - 1
        /\ running'
        /\ UNCHANGED <<classifications, stats, jsonFile, current_subcategory,
                       show_help, show_stats>>]_vars

\* C33 witness: under the help overlay, with a subcategory pending, a jump of
\* 10 from the second frame landed on the twelfth
C33_Witness ==
    /\ last.op = "jump" /\ last.key = 55
    /\ last.prev_overlay = "help" /\ show_help
    /\ current_subcategory = "i"
    /\ last.prev_index = 1 /\ current_index = 11
    /\ Len(frame_files) > 11
    /\ classifications # EmptyDict

Not_C33_Witness == ~(C33_Witness)

\* the state file holding exactly one round id
RoundIdText(round_id) == StateText(<<Num(StrOf(round_id))>>)

\* the step is the startup of a run that resolves its round id
ResolvesRound == proc.pc = "idle" /\ assigned' # assigned

\* the step takes a run out of its capture loop and through its shutdown
LeavesLoop == proc.pc = "capturing" /\ proc'.pc = "idle"

\* C34: a capture run reads the state file once, when it starts and before it
\* writes a frame; it writes the file only in its shutdown, after the loop,
\* once, and a write that goes through leaves exactly the round id the run's
\* frames carry; however that write goes, the run ends with its block written.
C34_StateFileOncePerRun ==
    [][/\ assigned' # assigned =>
            /\ ResolvesRound
            /\ assigned' = Append(assigned,
                                  Max(ReadStateFile(stateFile),
                                      ScanImageDir(imageDir, TRUE)) + 1)
            /\ stateFile' = stateFile
            /\ imageDir'.files = imageDir.files
            /\ proc'.pc = "capturing" =>
                   /\ proc'.current_round_id = assigned'[Len(assigned')]
                   /\ proc'.round_filenames = <<>>
       /\ proc.pc = "capturing" /\ proc'.pc = "capturing" =>
            /\ assigned' = assigned
            /\ stateFile' = stateFile
            /\ lastWritten' = lastWritten
            /\ proc'.current_round_id = proc.current_round_id
            /\ \A i \in 1..Len(proc'.round_filenames) :
                   IntOf(proc'.round_filenames[i][2].d) = proc.current_round_id
       /\ (stateFile' # stateFile \/ lastWritten' # lastWritten) => LeavesLoop
       /\ LeavesLoop =>
            /\ proc'.step \in {"read_failed", "duration"}
            /\ proc'.state \in WriteOutcomes
            /\ proc'.state = "ok" =>
                   stateFile' = RoundIdText(proc.current_round_id)
            /\ proc'.state = "open_fails" => stateFile' = stateFile
            /\ proc'.state = "write_fails" => stateFile' = StateText(<<>>)
            /\ proc'.log = "ok" =>
                   /\ Len(summaryLog') = Len(summaryLog) + 1
                   /\ summaryLog'[Len(summaryLog')].round_id = proc.current_round_id
            /\ assigned' = assigned]_vars

\* C34 witness: two runs have ended; the first could not write the state file
\* and saved no frame, so the second resolved round 1 again, saved a frame of
\* round 1 and left 1 in the state file
C34_Witness ==
    /\ runs = 2 /\ assigned = <<1, 1>>
    /\ proc.pc = "idle" /\ proc.state = "ok"
    /\ Len(summaryLog) = 2
    /\ stateFile = RoundIdText(1) /\ lastWritten = 1
    /\ \E f \in imageDir.files : IntOf(f[2].d) = 1

\* the frame files the running main() has written so far
FilesOfRun == {f \in imageDir.files :
                  \E i \in 1..Len(proc.round_filenames) : proc.round_filenames[i] = f}

\* the highest sequence number the running main() has used, 0 if none
HighestSequence ==
    IF proc.round_filenames = <<>> THEN 0
    ELSE SequenceOf(proc.round_filenames[Len(proc.round_filenames)])

\* C35: the count in the metadata block a run appends is the number of frame
\* files the run wrote and the highest sequence number it used, and an
\* iteration whose save did not produce a file leaves the count as it was.
C35_ReportedCount ==
    [][/\ (LeavesLoop /\ proc'.log = "ok") =>
            /\ summaryLog'[Len(summaryLog')].frames_saved = Cardinality(FilesOfRun)
            /\ summaryLog'[Len(summaryLog')].frames_saved = HighestSequence
       /\ (proc.pc = "capturing" /\ proc'.pc = "capturing"
           /\ imageDir'.files = imageDir.files) =>
            proc'.frames_saved_count = proc.frames_saved_count]_vars

\* the branches of the key handler other than the one that quits
StayingOps == {"help", "stats", "subcategory", "category", "next", "prev",
               "jump", "other"}

\* C36: the loop of run() is left only by the branch that quits: after a
\* navigation, a jump, a subcategory selection, a classification or a toggle
\* the loop is still waiting for a key with the cursor on a frame, also after
\* the first classification of the last frame and a step forward from it.
C36_OnlyQuitEnds ==
    [][/\ (running /\ ~running') => last'.op = "quit"
       /\ (running /\ last'.op \in StayingOps) =>
            /\ running'
            /\ 0 <= current_index' /\ current_index' <= Len(frame_files) - 1
       /\ (running /\ last'.op = "quit") => ~running'
       /\ ~running => ~running']_vars

\* C36 witness: the last frame was classified for the first time and the loop
\* is still on it, waiting for a key
C36_Witness ==
    /\ running
    /\ last.op = "category" /\ last.kind = "first"
    /\ Len(frame_files) = 2
    /\ last.prev_index = 1 /\ current_index = 1
    /\ last.frame = frame_files[2]
    /\ frame_files[2] \in DOMAIN classifications

\* the records the step added or replaced
Touched == {f \in DOMAIN classifications' :
               f \notin DOMAIN classifications \/ classifications'[f] # classifications[f]}

\* C37: a record that a key press adds or replaces is stored under the
\* filename the cursor was on when the key was pressed, a name of the
\* inventory, and its metadata are the round id, the frame number and the
\* timestamp read from that name, none of them "unknown".
C37_RecordOfCursorFrame ==
    [][\A f \in Touched :
          /\ running /\ 0 <= current_index /\ current_index < Len(frame_files)
          /\ f = frame_files[current_index + 1]
          /\ \E i \in 1..Len(frame_files) : frame_files[i] = f
          /\ last'.op = "category" /\ last'.frame = f
          /\ classifications'[f].metadata.round_id = f[2].d
          /\ classifications'[f].metadata.frame_number = f[4].d
          /\ classifications'[f].metadata.timestamp = f[6].d
          /\ classifications'[f].metadata.round_id # Unknown
          /\ classifications'[f].metadata.frame_number # Unknown
          /\ classifications'[f].metadata.timestamp # Unknown]_vars

\* C37 witness: the record of the second frame of the inventory,
\* round_2_1_7.jpg, was replaced with the cursor on it
C37_Witness ==
    /\ last.op = "category" /\ last.kind = "reclassified"
    /\ Len(frame_files) = 2 /\ last.prev_index = 1
    /\ last.frame = frame_files[2]
    /\ frame_files[2] = FrameName(<<2>>, <<1>>, <<7>>)
    /\ classifications[frame_files[2]].metadata =
          [round_id |-> <<2>>, frame_number |-> <<1>>, timestamp |-> <<7>>]

\* C38: on a directory that exists and can be listed, the list
\* file_utils.load_frame_files returns and the list _load_frame_files stores
\* in frame_files are the same names in the same order, for the names
\* os.listdir yielded to the call.
C38_LoadersAgree ==
    (last.op \in ListOps /\ last.listable /\ imageDir.exists) =>
        /\ last.files = load_frame_files(imageDir, TRUE, last.listing).files
        /\ last.files = MethodLoadFrameFiles(imageDir, TRUE, last.listing).files
        /\ last.op = "_load_frame_files" =>
               last.ret = "None" /\ frame_files = last.files
        /\ last.op = "load_frame_files" => last.ret = "list"

\* C38 witness: file_utils.load_frame_files was given round_1_9_8.jpg before
\* round_1_9_6.jpg and a .JPG name, and returned the two frames in that order,
\* which is also what the method had stored
C38_Witness ==
    /\ last.op = "load_frame_files" /\ last.listable /\ imageDir.exists
    /\ Len(last.listing) = 3
    /\ \E i \in 1..3 : last.listing[i] = UpperName(<<1>>, <<2>>, <<3>>)
    /\ last.files = <<FrameName(<<1>>, <<9>>, <<8>>), FrameName(<<1>>, <<9>>, <<6>>)>>
    /\ frame_files = last.files

====
